---- MODULE Spec2Model ----
(***************************************************************************)
(* Model of the transfer orchestration core of Plex-Transfer-Manager:      *)
(* backend/src/services/transfer-manager.js (class TransferManager) and    *)
(* the part of backend/src/services/ssh-manager.js that executes one       *)
(* admitted record (connect, startRsyncTransfer).                          *)
(*                                                                         *)
(* One step of the model is one event-loop callback of the node process    *)
(* (an HTTP handler, a timer, an ssh2 event) together with the synchronous *)
(* code it runs.  The position of every startTransfer invocation that is   *)
(* suspended at its await is kept in exec.                                 *)
(***************************************************************************)
EXTENDS Integers, Sequences, FiniteSets, TLC

(* ------------------------------ bounds -------------------------------- *)
MaxTransfers == 3      \* ids handed out by uuidv4 over a run
MaxBound == 2          \* setMaxConcurrent draws from 1..MaxBound
MaxTime == 2           \* Date.now() ranges over 1..MaxTime
MaxWideTransfers == 2  \* ids handed out while files and configuration vary
MaxPathLen == 4        \* length of the source paths buildDestPath is given
MaxClients == 3
MaxLines == 2
MaxSegments == 3        \* ssh2 Client objects created over a run

(* ----------------------------- constants ------------------------------ *)
DefaultMaxConcurrent == 3
Null == 0              \* null timestamp (Date.now() is never 0)
NoProgress == -1       \* let lastProgress = null

Pairs == {<<1, 2>>}    \* (source server id, destination server id)
BothWays == {<<1, 2>>, <<2, 1>>}
Percentages == {45}
WidePercentages == {0, 45, 100}
ExitCodes == {0, 1}
WideExitCodes == {0, 1, 23}
ConnectErrors == {"connect"}
Ages == {0, 1}

FilePaths == {"/a/m/f"}                 \* file.path of a submitted file
WideFilePaths == {"/a/m/f", "/a/t/g"}

Terminal == {"completed", "failed", "cancelled", "skipped"}

(* --------------------------- path mapping ----------------------------- *)
(* Paths are strings.  An entry of a mediaPaths table is a string or is    *)
(* not defined.                                                            *)
Undefined == [defined |-> FALSE, value |-> ""]
Defined(str) == [defined |-> TRUE, value |-> str]

(* JavaScript truthiness of a table entry: undefined and '' are falsy.     *)
Truthy(v) == v.defined /\ v.value # ""
(* The text a template literal interpolates for a table entry.             *)
interpolate(v) == IF v.defined THEN v.value ELSE "undefined"
(* a || b || c                                                             *)
Or3(a, b, c) == IF Truthy(a) THEN a ELSE IF Truthy(b) THEN b ELSE c

charAt(str, i) == SubSeq(str, i, i)
substring(str, i, j) == IF i > j THEN "" ELSE SubSeq(str, i, j)

(* String.prototype.startsWith                                             *)
startsWith(str, prefix) ==
    /\ Len(prefix) <= Len(str)
    /\ substring(str, 1, Len(prefix)) = prefix

(* String.prototype.indexOf, 1-based; 0 when pattern does not occur.       *)
indexOf(str, pattern) ==
    LET occ == {i \in 1..(Len(str) - Len(pattern) + 1) :
                   substring(str, i, i + Len(pattern) - 1) = pattern}
    IN IF occ = {} THEN 0
       ELSE CHOOSE i \in occ : \A j \in occ : i <= j

(* str.replace(pattern, '') with a string pattern: the first occurrence.   *)
removeFirst(str, pattern) ==
    LET i == indexOf(str, pattern)
    IN IF i = 0 THEN str
       ELSE substring(str, 1, i - 1)
              \o substring(str, i + Len(pattern), Len(str))

(* str.replace(/^\/+/, '')                                                  *)
RECURSIVE stripLeadingSlashes(_)
stripLeadingSlashes(str) ==
    IF Len(str) > 0 /\ charAt(str, 1) = "/"
    THEN stripLeadingSlashes(substring(str, 2, Len(str)))
    ELSE str

(* lastPart that keeps the directories of a path under no source base.     *)
lastPartKeepDirs(str) == str

(* const parts = str.split('/'); parts[parts.length - 1]                   *)
RECURSIVE lastPart(_)
lastPart(str) ==
    IF indexOf(str, "/") = 0 THEN str
    ELSE lastPart(substring(str, indexOf(str, "/") + 1, Len(str)))

(* str.replace(/\/+/g, '/')                                                 *)
RECURSIVE collapseSlashes(_)
collapseSlashes(str) ==
    IF Len(str) < 2 THEN str
    ELSE IF charAt(str, 1) = "/" /\ charAt(str, 2) = "/"
    THEN collapseSlashes(substring(str, 2, Len(str)))
    ELSE charAt(str, 1) \o collapseSlashes(substring(str, 2, Len(str)))

(* The first half of buildDestPath: media type and relative path.          *)
(* A prefix test that takes a base only where it ends at a separator.      *)
startsWithSegments(str, prefix) ==
    /\ startsWith(str, prefix)
    /\ \/ Len(str) = Len(prefix)
       \/ charAt(str, Len(prefix) + 1) = "/"
       \/ charAt(prefix, Len(prefix)) = "/"

(* classify with the path-segment-aware prefix test.                       *)
classifySegmentAware(sourcePath, sourceMediaPaths) ==
    IF Truthy(sourceMediaPaths.movies)
       /\ startsWithSegments(sourcePath, sourceMediaPaths.movies.value)
    THEN [mediaType |-> "movies",
          relativePath |-> stripLeadingSlashes(
              removeFirst(sourcePath, sourceMediaPaths.movies.value))]
    ELSE IF Truthy(sourceMediaPaths.tv)
            /\ startsWithSegments(sourcePath, sourceMediaPaths.tv.value)
    THEN [mediaType |-> "tv",
          relativePath |-> stripLeadingSlashes(
              removeFirst(sourcePath, sourceMediaPaths.tv.value))]
    ELSE IF Truthy(sourceMediaPaths.root)
            /\ startsWithSegments(sourcePath, sourceMediaPaths.root.value)
    THEN [mediaType |-> "root",
          relativePath |-> stripLeadingSlashes(
              removeFirst(sourcePath, sourceMediaPaths.root.value))]
    ELSE [mediaType |-> "root", relativePath |-> lastPart(sourcePath)]

classify(sourcePath, sourceMediaPaths) ==
    IF Truthy(sourceMediaPaths.movies)
       /\ startsWith(sourcePath, sourceMediaPaths.movies.value)
    THEN [mediaType |-> "movies",
          relativePath |-> stripLeadingSlashes(
              removeFirst(sourcePath, sourceMediaPaths.movies.value))]
    ELSE IF Truthy(sourceMediaPaths.tv)
            /\ startsWith(sourcePath, sourceMediaPaths.tv.value)
    THEN [mediaType |-> "tv",
          relativePath |-> stripLeadingSlashes(
              removeFirst(sourcePath, sourceMediaPaths.tv.value))]
    ELSE IF Truthy(sourceMediaPaths.root)
            /\ startsWith(sourcePath, sourceMediaPaths.root.value)
    THEN [mediaType |-> "root",
          relativePath |-> stripLeadingSlashes(
              removeFirst(sourcePath, sourceMediaPaths.root.value))]
    ELSE [mediaType |-> "root", relativePath |-> lastPart(sourcePath)]

(* The second half of buildDestPath: the destination base directory.       *)
destBasePath(mediaType, destMediaPaths) ==
    IF mediaType = "movies" /\ Truthy(destMediaPaths.movies)
    THEN destMediaPaths.movies
    ELSE IF mediaType = "tv" /\ Truthy(destMediaPaths.tv)
    THEN destMediaPaths.tv
    ELSE Or3(destMediaPaths.root, destMediaPaths.movies, destMediaPaths.tv)

buildDestPath(sourcePath, sourceMediaPaths, destMediaPaths) ==
    LET c == classify(sourcePath, sourceMediaPaths)
    IN collapseSlashes(
         interpolate(destBasePath(c.mediaType, destMediaPaths))
           \o "/" \o c.relativePath)

(* The inputs buildDestPath is run on: every source path of up to          *)
(* MaxPathLen characters of Alphabet against every pair of tables in which *)
(* each category is left out or is one of a few bases, and the documented  *)
(* examples.                                                               *)
Alphabet == {"/", "a", "m"}
RECURSIVE Strings(_)
Strings(n) ==
    IF n = 0 THEN {""}
    ELSE LET S == Strings(n - 1) IN S \cup {s \o c : s \in S, c \in Alphabet}

SourceTables ==
    [movies : {Undefined, Defined("/a/m"), Defined("/m")},
     tv : {Undefined, Defined("/a/a"), Defined("/a")},
     root : {Undefined, Defined("/a"), Defined("/")}]
DestTables ==
    [movies : {Undefined, Defined("/b/M")},
     tv : {Undefined, Defined("/b/T")},
     root : {Undefined, Defined("/b"), Defined("/b/")}]

ExampleSource ==
    [movies |-> Defined("/a/movies"), tv |-> Defined("/a/tv"),
     root |-> Defined("/a")]
ExampleDest ==
    [movies |-> Defined("/b/Movies"), tv |-> Defined("/b/TV"),
     root |-> Defined("/b")]
ExamplePaths ==
    {"/a/movies/X/f.mkv", "/a/tv/Show/S01/e1.mkv", "/a/other/file.mkv",
     "/z/file.mkv"}

PathInputs ==
    [sourcePath : Strings(MaxPathLen), sourceMediaPaths : SourceTables,
     destMediaPaths : DestTables]
    \cup [sourcePath : ExamplePaths, sourceMediaPaths : {ExampleSource},
          destMediaPaths : {ExampleDest}]

(* ---------------------------- configuration --------------------------- *)
Server(id, mediaPaths) == [id |-> id, mediaPaths |-> mediaPaths]

(* config.servers as loaded at startup, and after the configuration was    *)
(* edited and reloaded: the destination server's bases have moved.         *)
StartConfig ==
    [servers |->
       (1 :> Server(1, [movies |-> Defined("/a/m"), tv |-> Defined("/a/t"),
                        root |-> Defined("/a")])
        @@ 2 :> Server(2, [movies |-> Defined("/b/M"), tv |-> Defined("/b/T"),
                           root |-> Defined("/b")])),
     transfer |-> [maxConcurrent |-> DefaultMaxConcurrent]]
EditedConfig ==
    [servers |->
       (1 :> Server(1, [movies |-> Defined("/a/m"), tv |-> Defined("/a/t"),
                        root |-> Defined("/a")])
        @@ 2 :> Server(2, [movies |-> Undefined, tv |-> Defined("/c/T"),
                           root |-> Defined("/c")])),
     transfer |-> [maxConcurrent |-> DefaultMaxConcurrent]]
Configs == {StartConfig, EditedConfig}

VARIABLES
    transfers,        \* this.transfers : id -> record, for the ids in the Map
    queue,            \* this.queue : sequence of ids
    activeTransfers,  \* this.activeTransfers : set of ids
    maxConcurrent,    \* this.maxConcurrent
    detached,         \* records deleted from the Map that a suspended
                      \* startTransfer invocation still references
    exec,             \* id -> position of the startTransfer invocation of id
    nextId,           \* next id uuidv4 hands out
    now,              \* Date.now()
    emitted,          \* events io.emit published during the last step
    ret,              \* what the call of the last step returned to its caller
    unhandled,        \* a promise was rejected and nothing handles it
    config,           \* app.locals.config
    pathArgs,         \* the arguments of a call of buildDestPath
    pathResult,       \* what that call returned, once it has run
    frontResult,      \* what the frontend's mapping returned for them
    connections,      \* sshManager.connections : connectionKey -> client
    clients,          \* every ssh2 Client created, in order of creation
    sshRet,           \* what the last call of connect returned
    fileArgs,         \* the request a file route is called with
    fileResult        \* its response and the remote command it had executed

managerVars == <<transfers, queue, activeTransfers, maxConcurrent, detached,
                 exec, nextId, now, emitted, ret, unhandled>>
pathVars == <<pathArgs, pathResult, frontResult>>
sshVars == <<connections, clients, sshRet>>
fileVars == <<fileArgs, fileResult>>

vars == <<transfers, queue, activeTransfers, maxConcurrent, detached, exec,
          nextId, now, emitted, ret, unhandled, config, pathArgs, pathResult,
          frontResult,
          connections, clients, sshRet, fileArgs, fileResult>>

Ids == 1..MaxTransfers

NoError == [kind |-> "none", code |-> 0]
NoExec == [pc |-> "none", src |-> 0, dst |-> 0, lastProgress |-> NoProgress]
Finished == [pc |-> "done", src |-> 0, dst |-> 0, lastProgress |-> NoProgress]

RetNone == [kind |-> "none", ok |-> FALSE, ids |-> <<>>]
RetBool(b) == [kind |-> "bool", ok |-> b, ids |-> <<>>]
RetIds(ids) == [kind |-> "ids", ok |-> TRUE, ids |-> ids]
RetThrow == [kind |-> "throw", ok |-> FALSE, ids |-> <<>>]

(* The state a handler starts from: nothing published or returned yet.     *)
State == [transfers |-> transfers, queue |-> queue,
          activeTransfers |-> activeTransfers, detached |-> detached,
          exec |-> exec, emitted |-> <<>>, ret |-> RetNone,
          unhandled |-> unhandled]

Commit(s) ==
    /\ transfers' = s.transfers
    /\ queue' = s.queue
    /\ activeTransfers' = s.activeTransfers
    /\ detached' = s.detached
    /\ exec' = s.exec
    /\ emitted' = s.emitted
    /\ ret' = s.ret
    /\ unhandled' = s.unhandled

Event(name, t) ==
    [name |-> name, id |-> t.id, status |-> t.status,
     percentage |-> t.percentage, error |-> t.error]

emitTransferUpdate(t) == <<Event("transfer:update", t)>>
emitTransferProgress(t) == <<Event("transfer:progress", t)>>
emitTransferComplete(t) == <<Event("transfer:complete", t)>>
emitTransferError(t) == <<Event("transfer:error", t)>>

(* startTransfer that rewrites destPath to the file name alone.            *)
(* startTransfer that does not record the time of the start.               *)
startTransferNoStamp(s, id, src, dst, t) ==
    IF id \notin DOMAIN s.transfers THEN s
    ELSE LET r == [s.transfers[id] EXCEPT !.status = "active"]
         IN [s EXCEPT !.transfers[id] = r,
                      !.emitted = @ \o emitTransferUpdate(r),
                      !.exec[id] = [pc |-> "connecting", src |-> src,
                                    dst |-> dst,
                                    lastProgress |-> NoProgress]]

startTransferFlatten(s, id, src, dst, t) ==
    IF id \notin DOMAIN s.transfers THEN s
    ELSE LET r == [s.transfers[id] EXCEPT !.status = "active", !.startedAt = t,
                                          !.destPath = lastPart(@)]
         IN [s EXCEPT !.transfers[id] = r,
                      !.emitted = @ \o emitTransferUpdate(r),
                      !.exec[id] = [pc |-> "connecting", src |-> src,
                                    dst |-> dst,
                                    lastProgress |-> NoProgress]]

(* startTransfer up to its await: the record becomes active and the call   *)
(* of sshManager.startRsyncTransfer is pending on the connection.          *)
startTransfer(s, id, src, dst, t) ==
    IF id \notin DOMAIN s.transfers THEN s
    ELSE LET r == [s.transfers[id] EXCEPT !.status = "active", !.startedAt = t]
         IN [s EXCEPT !.transfers[id] = r,
                      !.emitted = @ \o emitTransferUpdate(r),
                      !.exec[id] = [pc |-> "connecting", src |-> src,
                                    dst |-> dst,
                                    lastProgress |-> NoProgress]]

(* processQueue that leaves the id it starts at the head of the queue.     *)
RECURSIVE processQueuePeek(_, _, _, _, _)
processQueuePeek(s, max, src, dst, t) ==
    IF Len(s.queue) > 0 /\ Cardinality(s.activeTransfers) < max
    THEN LET transferId == Head(s.queue)
         IN IF transferId \notin DOMAIN s.transfers
               \/ s.transfers[transferId].status # "queued"
            THEN processQueuePeek([s EXCEPT !.queue = Tail(@)],
                                  max, src, dst, t)
            ELSE startTransfer(
                   [s EXCEPT !.activeTransfers = @ \cup {transferId}],
                   transferId, src, dst, t)
    ELSE s

(* processQueue that takes the id at the end of the queue.                 *)
RECURSIVE processQueueLifo(_, _, _, _, _)
processQueueLifo(s, max, src, dst, t) ==
    IF Len(s.queue) > 0 /\ Cardinality(s.activeTransfers) < max
    THEN LET transferId == s.queue[Len(s.queue)]
             s1 == [s EXCEPT !.queue = SubSeq(@, 1, Len(@) - 1)]
         IN IF transferId \notin DOMAIN s1.transfers
               \/ s1.transfers[transferId].status # "queued"
            THEN processQueueLifo(s1, max, src, dst, t)
            ELSE processQueueLifo(
                   startTransfer(
                     [s1 EXCEPT !.activeTransfers = @ \cup {transferId}],
                     transferId, src, dst, t),
                   max, src, dst, t)
    ELSE s

(* processQueue with the bound test off by one.                            *)
RECURSIVE processQueueOffByOne(_, _, _, _, _)
processQueueOffByOne(s, max, src, dst, t) ==
    IF Len(s.queue) > 0 /\ Cardinality(s.activeTransfers) <= max
    THEN LET transferId == Head(s.queue)
             s1 == [s EXCEPT !.queue = Tail(@)]
         IN IF transferId \notin DOMAIN s1.transfers
               \/ s1.transfers[transferId].status # "queued"
            THEN processQueueOffByOne(s1, max, src, dst, t)
            ELSE processQueueOffByOne(
                   startTransfer(
                     [s1 EXCEPT !.activeTransfers = @ \cup {transferId}],
                     transferId, src, dst, t),
                   max, src, dst, t)
    ELSE s

RECURSIVE processQueue(_, _, _, _, _)
processQueue(s, max, src, dst, t) ==
    IF Len(s.queue) > 0 /\ Cardinality(s.activeTransfers) < max
    THEN LET transferId == Head(s.queue)
             s1 == [s EXCEPT !.queue = Tail(@)]
         IN IF transferId \notin DOMAIN s1.transfers
               \/ s1.transfers[transferId].status # "queued"
            THEN processQueue(s1, max, src, dst, t)
            ELSE processQueue(
                   startTransfer(
                     [s1 EXCEPT !.activeTransfers = @ \cup {transferId}],
                     transferId, src, dst, t),
                   max, src, dst, t)
    ELSE s

NewTransfer(id, sourceServer, destServer, file, t) ==
    [id |-> id, sourceServerId |-> sourceServer.id,
     destServerId |-> destServer.id,
     sourcePath |-> file.path,
     destPath |-> buildDestPath(file.path, sourceServer.mediaPaths,
                                destServer.mediaPaths),
     status |-> "queued", percentage |-> 0, error |-> NoError,
     createdAt |-> t, startedAt |-> Null, completedAt |-> Null]

(* createRecords that pushes no id for the first file of a batch.         *)
RECURSIVE createRecordsDropFirst(_, _, _, _, _, _, _)
createRecordsDropFirst(s, first, k, sourceServer, destServer, files, t) ==
    IF k = 0 THEN [s EXCEPT !.ret = RetIds(<<>>)]
    ELSE LET s0 == createRecordsDropFirst(s, first, k - 1, sourceServer, destServer,
                                         files, t)
             transferId == first + k - 1
             r == NewTransfer(transferId, sourceServer, destServer,
                              files[k], t)
         IN [s0 EXCEPT !.transfers = @ @@ (transferId :> r),
                       !.queue = Append(@, transferId),
                       !.ret.ids = IF k = 1 THEN @ ELSE Append(@, transferId),
                       !.emitted = @ \o emitTransferUpdate(r)]

(* The for loop of createTransfers over the first k files of the batch;    *)
(* s.ret.ids is the local transferIds.                                     *)
RECURSIVE createRecords(_, _, _, _, _, _, _)
createRecords(s, first, k, sourceServer, destServer, files, t) ==
    IF k = 0 THEN [s EXCEPT !.ret = RetIds(<<>>)]
    ELSE LET s0 == createRecords(s, first, k - 1, sourceServer, destServer,
                                files, t)
             transferId == first + k - 1
             r == NewTransfer(transferId, sourceServer, destServer,
                              files[k], t)
         IN [s0 EXCEPT !.transfers = @ @@ (transferId :> r),
                       !.queue = Append(@, transferId),
                       !.ret.ids = Append(@, transferId),
                       !.emitted = @ \o emitTransferUpdate(r)]

(* A file object has a path, or it has none: buildDestPath then throws a   *)
(* TypeError on sourcePath.startsWith or sourcePath.split.                 *)
hasPath(file) == "path" \in DOMAIN file

(* The number of files the for loop of createTransfers gets through: all   *)
(* of them, or those before the first one on which buildDestPath throws.   *)
processed(files) ==
    IF \A i \in 1..Len(files) : hasPath(files[i]) THEN Len(files)
    ELSE (CHOOSE i \in 1..Len(files) :
              /\ ~hasPath(files[i])
              /\ \A j \in 1..(i - 1) : hasPath(files[j])) - 1

(* createTransfers as its caller sees it: caught is what the caller makes  *)
(* of a rejection.  When buildDestPath throws, the records of the files    *)
(* before it are in the table and the queue, and processQueue is not       *)
(* reached.                                                                *)
createTransfersFor(sourceServer, destServer, files, caught) ==
    /\ nextId + Len(files) - 1 <= MaxTransfers
    /\ LET s == createRecords(State, nextId, processed(files), sourceServer,
                              destServer, files, now)
       IN IF processed(files) = Len(files)
          THEN Commit(processQueue(s, maxConcurrent, sourceServer.id,
                                   destServer.id, now))
          ELSE Commit([s EXCEPT !.ret = caught])
    /\ nextId' = nextId + processed(files)
    /\ UNCHANGED <<maxConcurrent, now, config, pathVars, fileVars, sshVars>>

createTransfers(sourceServer, destServer, files) ==
    createTransfersFor(sourceServer, destServer, files, RetThrow)

(* The object a suspended startTransfer holds: the Map's record, or the    *)
(* record clearOldTransfers deleted from the Map in the meantime.          *)
Obj(s, id) ==
    IF id \in DOMAIN s.transfers THEN s.transfers[id] ELSE s.detached[id]

Put(s, id, r) ==
    IF id \in DOMAIN s.transfers THEN [s EXCEPT !.transfers[id] = r]
    ELSE [s EXCEPT !.detached[id] = r]

Without(f, D) == [i \in DOMAIN f \ D |-> f[i]]

(* afterAwait whose success branch leaves progress.percentage as the last  *)
(* progress report left it.                                                *)
afterAwaitKeepPercentage(s, id, err, t) ==
    LET r0 == Obj(s, id)
        r == IF err = NoError
             THEN [r0 EXCEPT !.status = "completed", !.completedAt = t]
             ELSE [r0 EXCEPT !.status = "failed", !.error = err,
                             !.completedAt = t]
        ev == IF err = NoError THEN emitTransferComplete(r)
              ELSE emitTransferError(r)
    IN [Put(s, id, r) EXCEPT !.emitted = @ \o ev]

(* The statements of startTransfer after the await (err = NoError) or its  *)
(* catch block (the awaited startRsyncTransfer rejected with err).         *)
afterAwait(s, id, err, t) ==
    LET r0 == Obj(s, id)
        r == IF err = NoError
             THEN [r0 EXCEPT !.status = "completed", !.completedAt = t,
                             !.percentage = 100]
             ELSE [r0 EXCEPT !.status = "failed", !.error = err,
                             !.completedAt = t]
        ev == IF err = NoError THEN emitTransferComplete(r)
              ELSE emitTransferError(r)
    IN [Put(s, id, r) EXCEPT !.emitted = @ \o ev]

(* The finally block of startTransfer up to its call of processQueue; the  *)
(* invocation and its reference to the record end with it.                 *)
releaseSlot(s, id) ==
    [s EXCEPT !.activeTransfers = @ \ {id},
              !.exec[id] = Finished,
              !.detached = Without(@, {id})]

(* settleTransfer whose finally block does not call processQueue.          *)
settleTransferNoAdmission(s, id, err, max, t) ==
    releaseSlot(afterAwait(s, id, err, t), id)

(* settleTransfer whose finally block leaves the id in activeTransfers.    *)
settleTransferKeepSlot(s, id, err, max, t) ==
    processQueue([afterAwait(s, id, err, t) EXCEPT
                     !.exec[id] = Finished, !.detached = Without(@, {id})],
                 max, s.exec[id].src, s.exec[id].dst, t)

(* settleTransfer without the catch block: the rejection leaves the        *)
(* record as it is and escapes the un-awaited startTransfer.               *)
settleTransferNoCatch(s, id, err, max, t) ==
    processQueue(
        releaseSlot(IF err = NoError THEN afterAwait(s, id, err, t)
                    ELSE [s EXCEPT !.unhandled = TRUE], id),
        max, s.exec[id].src, s.exec[id].dst, t)

(* The rest of startTransfer once the awaited startRsyncTransfer settles:  *)
(* the statements after the await or the catch block, then the finally.    *)
settleTransfer(s, id, err, max, t) ==
    processQueue(releaseSlot(afterAwait(s, id, err, t), id),
                 max, s.exec[id].src, s.exec[id].dst, t)

(* connect resolves with a session and conn.exec hands back the stream of  *)
(* the rsync command: the remote copy is running.                          *)
ConnectReady(id) ==
    /\ exec[id].pc = "connecting"
    /\ Commit([State EXCEPT !.exec[id].pc = "running"])
    /\ UNCHANGED <<maxConcurrent, nextId, now, config, pathVars, fileVars, sshVars>>

(* connect rejects (error event) or conn.exec reports an error.            *)
ConnectError(id, kind) ==
    /\ exec[id].pc = "connecting"
    /\ Commit(settleTransfer(State, id, [kind |-> kind, code |-> 0],
                             maxConcurrent, now))
    /\ UNCHANGED <<maxConcurrent, nextId, now, config, pathVars, fileVars, sshVars>>

(* The Client created for the copy emits close before it is ready and      *)
(* without an error event: the close handler of connect only deletes the   *)
(* registry entry, so the promise of connect is never settled and the      *)
(* invocation of startTransfer stays suspended at its await.               *)
ConnectClose(id) ==
    /\ exec[id].pc = "connecting"
    /\ Commit([State EXCEPT !.exec[id].pc = "suspended"])
    /\ UNCHANGED <<maxConcurrent, nextId, now, config, pathVars, fileVars, sshVars>>

(* stream.on('data') with a chunk that holds a progress line.              *)
RsyncData(id, pct) ==
    /\ exec[id].pc = "running"
    /\ IF exec[id].lastProgress # pct
       THEN LET r == [Obj(State, id) EXCEPT !.percentage = pct]
                s == Put(State, id, r)
            IN Commit([s EXCEPT !.exec[id].lastProgress = pct,
                                !.emitted = emitTransferProgress(r)])
       ELSE Commit(State)
    /\ UNCHANGED <<maxConcurrent, nextId, now, config, pathVars, fileVars, sshVars>>

(* A chunk of rsync's output is a sequence of lines; a line either has the *)
(* form "transferred  NN%  speed  eta" of a progress line or it has not.   *)
OtherLine == [progress |-> FALSE, percentage |-> 0]
ProgressLine(pct) == [progress |-> TRUE, percentage |-> pct]

(* text.match(/.../) without the g flag: the first progress line of the    *)
(* chunk, or null.                                                         *)
NoMatch == [matched |-> FALSE, percentage |-> 0]
progressMatch(chunk) ==
    IF \E i \in 1..Len(chunk) : chunk[i].progress
    THEN LET i == CHOOSE i \in 1..Len(chunk) :
                      /\ chunk[i].progress
                      /\ \A j \in 1..(i - 1) : ~chunk[j].progress
         IN [matched |-> TRUE, percentage |-> chunk[i].percentage]
    ELSE NoMatch

(* stream.on('data') that calls the callback for every progress line.      *)
RsyncChunkEveryLine(id, chunk) ==
    /\ exec[id].pc = "running"
    /\ LET progress == progressMatch(chunk)
       IN IF progress.matched
          THEN LET r == [Obj(State, id) EXCEPT
                           !.percentage = progress.percentage]
                   s == Put(State, id, r)
               IN Commit([s EXCEPT
                            !.exec[id].lastProgress = progress.percentage,
                            !.emitted = emitTransferProgress(r)])
          ELSE Commit(State)
    /\ UNCHANGED <<maxConcurrent, nextId, now, config, pathVars, fileVars, sshVars>>

(* stream.on('data') with any chunk of output.                             *)
RsyncChunk(id, chunk) ==
    /\ exec[id].pc = "running"
    /\ LET progress == progressMatch(chunk)
       IN IF progress.matched
             /\ exec[id].lastProgress # progress.percentage
          THEN LET r == [Obj(State, id) EXCEPT
                           !.percentage = progress.percentage]
                   s == Put(State, id, r)
               IN Commit([s EXCEPT
                            !.exec[id].lastProgress = progress.percentage,
                            !.emitted = emitTransferProgress(r)])
          ELSE Commit(State)
    /\ UNCHANGED <<maxConcurrent, nextId, now, config, pathVars, fileVars, sshVars>>

(* stream.on('close') with the exit code of the rsync command.             *)
RsyncClose(id, exitCode) ==
    /\ exec[id].pc = "running"
    /\ Commit(settleTransfer(State, id,
                IF exitCode = 0 THEN NoError
                ELSE [kind |-> "exit", code |-> exitCode],
                maxConcurrent, now))
    /\ UNCHANGED <<maxConcurrent, nextId, now, config, pathVars, fileVars, sshVars>>

IndexOf(q, id) ==
    IF \E i \in 1..Len(q) : q[i] = id
    THEN CHOOSE i \in 1..Len(q) : q[i] = id /\ \A j \in 1..(i - 1) : q[j] # id
    ELSE -1
Splice(q, i) == [j \in 1..(Len(q) - 1) |-> IF j < i THEN q[j] ELSE q[j + 1]]

(* cancelTransfer that leaves a cancelled queued id in the queue.          *)
cancelKeepQueued(s, transferId, t) ==
    IF transferId \notin DOMAIN s.transfers THEN [s EXCEPT !.ret = RetThrow]
    ELSE LET transfer == s.transfers[transferId]
             r == [transfer EXCEPT !.status = "cancelled", !.completedAt = t]
         IN IF transfer.status = "queued"
            THEN [s EXCEPT !.transfers[transferId] = r,
                           !.emitted = @ \o emitTransferUpdate(r),
                           !.ret = RetBool(TRUE)]
            ELSE IF transfer.status = "active"
            THEN [s EXCEPT !.transfers[transferId] = r,
                           !.activeTransfers = @ \ {transferId},
                           !.emitted = @ \o emitTransferUpdate(r),
                           !.ret = RetBool(TRUE)]
            ELSE [s EXCEPT !.ret = RetBool(FALSE)]

(* cancelTransfer that leaves a cancelled active id in activeTransfers.    *)
cancelKeepSlot(s, transferId, t) ==
    IF transferId \notin DOMAIN s.transfers THEN [s EXCEPT !.ret = RetThrow]
    ELSE LET transfer == s.transfers[transferId]
             r == [transfer EXCEPT !.status = "cancelled", !.completedAt = t]
         IN IF transfer.status = "queued"
            THEN LET index == IndexOf(s.queue, transferId)
                 IN [s EXCEPT !.queue = IF index > -1 THEN Splice(@, index)
                                        ELSE @,
                              !.transfers[transferId] = r,
                              !.emitted = @ \o emitTransferUpdate(r),
                              !.ret = RetBool(TRUE)]
            ELSE IF transfer.status = "active"
            THEN [s EXCEPT !.transfers[transferId] = r,
                           !.emitted = @ \o emitTransferUpdate(r),
                           !.ret = RetBool(TRUE)]
            ELSE [s EXCEPT !.ret = RetBool(FALSE)]

(* cancelTransfer that cancels a cancelled record once more.               *)
cancelAgain(s, transferId, t) ==
    IF transferId \notin DOMAIN s.transfers THEN [s EXCEPT !.ret = RetThrow]
    ELSE LET transfer == s.transfers[transferId]
             r == [transfer EXCEPT !.status = "cancelled", !.completedAt = t]
         IN IF transfer.status = "queued"
            THEN LET index == IndexOf(s.queue, transferId)
                 IN [s EXCEPT !.queue = IF index > -1 THEN Splice(@, index)
                                        ELSE @,
                              !.transfers[transferId] = r,
                              !.emitted = @ \o emitTransferUpdate(r),
                              !.ret = RetBool(TRUE)]
            ELSE IF transfer.status \in {"active", "cancelled"}
            THEN [s EXCEPT !.transfers[transferId] = r,
                           !.activeTransfers = @ \ {transferId},
                           !.emitted = @ \o emitTransferUpdate(r),
                           !.ret = RetBool(TRUE)]
            ELSE [s EXCEPT !.ret = RetBool(FALSE)]

(* cancelTransfer that frees the slot of an active record and leaves the   *)
(* record active.                                                          *)
cancelFreeSlotOnly(s, transferId, t) ==
    IF transferId \notin DOMAIN s.transfers THEN [s EXCEPT !.ret = RetThrow]
    ELSE LET transfer == s.transfers[transferId]
             r == [transfer EXCEPT !.status = "cancelled", !.completedAt = t]
         IN IF transfer.status = "queued"
            THEN LET index == IndexOf(s.queue, transferId)
                 IN [s EXCEPT !.queue = IF index > -1 THEN Splice(@, index)
                                        ELSE @,
                              !.transfers[transferId] = r,
                              !.emitted = @ \o emitTransferUpdate(r),
                              !.ret = RetBool(TRUE)]
            ELSE IF transfer.status = "active"
            THEN [s EXCEPT !.activeTransfers = @ \ {transferId},
                           !.emitted = @ \o emitTransferUpdate(transfer),
                           !.ret = RetBool(TRUE)]
            ELSE [s EXCEPT !.ret = RetBool(FALSE)]

(* The body of cancelTransfer on the handler state s at time t.            *)
cancel(s, transferId, t) ==
    IF transferId \notin DOMAIN s.transfers THEN [s EXCEPT !.ret = RetThrow]
    ELSE LET transfer == s.transfers[transferId]
             r == [transfer EXCEPT !.status = "cancelled", !.completedAt = t]
         IN IF transfer.status = "queued"
            THEN LET index == IndexOf(s.queue, transferId)
                 IN [s EXCEPT !.queue = IF index > -1 THEN Splice(@, index)
                                        ELSE @,
                              !.transfers[transferId] = r,
                              !.emitted = @ \o emitTransferUpdate(r),
                              !.ret = RetBool(TRUE)]
            ELSE IF transfer.status = "active"
            THEN [s EXCEPT !.transfers[transferId] = r,
                           !.activeTransfers = @ \ {transferId},
                           !.emitted = @ \o emitTransferUpdate(r),
                           !.ret = RetBool(TRUE)]
            ELSE [s EXCEPT !.ret = RetBool(FALSE)]

cancelTransfer(id) ==
    /\ id \in 1..(nextId - 1)
    /\ Commit(cancel(State, id, now))
    /\ UNCHANGED <<maxConcurrent, nextId, now, config, pathVars, fileVars, sshVars>>

(* setMaxConcurrent that runs an admission pass with the new bound.         *)
setMaxConcurrentAdmit(max) ==
    /\ maxConcurrent' = max
    /\ Commit(processQueue(State, max, 1, 2, now))
    /\ UNCHANGED <<nextId, now, config, pathVars, fileVars, sshVars>>

setMaxConcurrent(max) ==
    /\ maxConcurrent' = max
    /\ Commit(State)
    /\ UNCHANGED <<nextId, now, config, pathVars, fileVars, sshVars>>

(* clearOldTransfers that also deletes the records exactly maxAge old.     *)
clearOldTransfersInclusive(maxAge) ==
    LET toDelete == {id \in DOMAIN transfers :
                        /\ transfers[id].status \in Terminal
                        /\ transfers[id].completedAt # Null
                        /\ now - transfers[id].completedAt >= maxAge}
        held == {id \in toDelete : exec[id].pc \in {"connecting", "running"}}
    IN /\ Commit([State EXCEPT
                    !.transfers = Without(@, toDelete),
                    !.detached = @ @@ [id \in held |-> transfers[id]]])
       /\ UNCHANGED <<maxConcurrent, nextId, now, config, pathVars, fileVars, sshVars>>

clearOldTransfers(maxAge) ==
    LET toDelete == {id \in DOMAIN transfers :
                        /\ transfers[id].status \in Terminal
                        /\ transfers[id].completedAt # Null
                        /\ now - transfers[id].completedAt > maxAge}
        held == {id \in toDelete : exec[id].pc \in {"connecting", "running"}}
    IN /\ Commit([State EXCEPT
                    !.transfers = Without(@, toDelete),
                    !.detached = @ @@ [id \in held |-> transfers[id]]])
       /\ UNCHANGED <<maxConcurrent, nextId, now, config, pathVars, fileVars, sshVars>>

(* transfers.filter(t => t.status === status).length                       *)
countStatus(status) ==
    Cardinality({id \in DOMAIN transfers : transfers[id].status = status})

(* getStatistics that counts the cancelled records under another spelling. *)
getStatisticsMisspelt ==
    [total |-> Cardinality(DOMAIN transfers),
     queued |-> countStatus("queued"),
     active |-> countStatus("active"),
     completed |-> countStatus("completed"),
     failed |-> countStatus("failed"),
     cancelled |-> countStatus("canceled"),
     skipped |-> countStatus("skipped")]

(* What getStatistics returns when called in the current state.            *)
getStatistics ==
    [total |-> Cardinality(DOMAIN transfers),
     queued |-> countStatus("queued"),
     active |-> countStatus("active"),
     completed |-> countStatus("completed"),
     failed |-> countStatus("failed"),
     cancelled |-> countStatus("cancelled"),
     skipped |-> countStatus("skipped")]

(* Date.now() advances between callbacks.                                  *)
Tick ==
    /\ now < MaxTime
    /\ now' = now + 1
    /\ Commit(State)
    /\ UNCHANGED <<maxConcurrent, nextId, config, pathVars, fileVars, sshVars>>

InitManager ==
    /\ transfers = <<>>
    /\ queue = <<>>
    /\ activeTransfers = {}
    /\ maxConcurrent \in {DefaultMaxConcurrent} \cup (1..MaxBound)
    /\ detached = <<>>
    /\ exec = [i \in Ids |-> NoExec]
    /\ nextId = 1
    /\ now = 1
    /\ emitted = <<>>
    /\ ret = RetNone
    /\ unhandled = FALSE

NoArgs == [sourcePath |-> "", sourceMediaPaths |-> <<>>,
           destMediaPaths |-> <<>>]
NotMapped == [done |-> FALSE, path |-> ""]

NoSession == [kind |-> "none", conn |-> 0]

(* new SSHManager(): no connection yet.                                    *)
InitSsh ==
    /\ connections = <<>>
    /\ clients = <<>>
    /\ sshRet = NoSession

NoRequest == [route |-> "none", serverId |-> 0, path |-> Undefined]
NotServed == [done |-> FALSE, status |-> "", command |-> Undefined]

(* The server setup hands the configured bound to setMaxConcurrent.        *)
Init ==
    /\ InitManager
    /\ config = [StartConfig EXCEPT !.transfer.maxConcurrent = maxConcurrent]
    /\ pathArgs = NoArgs
    /\ pathResult = NotMapped
    /\ frontResult = NotMapped
    /\ InitSsh
    /\ fileArgs = NoRequest
    /\ fileResult = NotServed

(* The files arrays of a request body: one to MaxTransfers file objects.   *)
Batches(paths) ==
    UNION {[1..n -> {[path |-> p] : p \in paths}] : n \in 1..MaxTransfers}

(* The values of req.body.files: absent, a value that is no array, or an   *)
(* array of file objects.                                                  *)
Missing == [kind |-> "undefined", items |-> <<>>]
NotArray == [kind |-> "object", items |-> <<>>]
Array(items) == [kind |-> "array", items |-> items]

(* The values of req.body.sourceServerId and destServerId besides the ids  *)
(* of configured servers: absent, and an id no configured server has.      *)
MissingId == 0
UnknownId == 9

(* res.status(code).json({success: false, error}).                         *)
RetStatus(code) == [kind |-> code, ok |-> FALSE, ids |-> <<>>]

(* config.servers.find(s => s.id === id) finds a server.                   *)
found(id) == id \in DOMAIN config.servers

(* The error responses of router.post('/'): nothing else happens.          *)
respond(code) ==
    /\ Commit([State EXCEPT !.ret = RetStatus(code)])
    /\ UNCHANGED <<maxConcurrent, nextId, now, config, pathVars, fileVars, sshVars>>

(* router.post('/') that does not compare the two server ids.              *)
postTransfersSameServer(sourceServerId, destServerId, files) ==
    IF \/ sourceServerId = MissingId
       \/ destServerId = MissingId
       \/ files.kind = "undefined"
       \/ files.kind # "array"
    THEN respond("400")
    ELSE IF Len(files.items) = 0 THEN respond("400")
    ELSE IF ~found(sourceServerId) THEN respond("404")
    ELSE IF ~found(destServerId) THEN respond("404")
    ELSE createTransfersFor(config.servers[sourceServerId],
                            config.servers[destServerId], files.items,
                            RetStatus("500"))

(* router.post('/'): the body is validated, the servers are looked up in   *)
(* the configuration of the moment, and createTransfers is called.         *)
postTransfers(sourceServerId, destServerId, files) ==
    IF \/ sourceServerId = MissingId
       \/ destServerId = MissingId
       \/ files.kind = "undefined"
       \/ files.kind # "array"
    THEN respond("400")
    ELSE IF Len(files.items) = 0 THEN respond("400")
    ELSE IF ~found(sourceServerId) THEN respond("404")
    ELSE IF ~found(destServerId) THEN respond("404")
    ELSE IF sourceServerId = destServerId THEN respond("400")
    ELSE createTransfersFor(config.servers[sourceServerId],
                            config.servers[destServerId], files.items,
                            RetStatus("500"))

(* The properties the server setup puts on app.locals.                     *)
Locals == {"config", "io"}

(* router.post('/reload'): the configuration file, as it reads now,        *)
(* replaces app.locals.config, and the bound is handed to the transfer     *)
(* manager found on app.locals.                                            *)
reloadConfig(updatedConfig) ==
    /\ config' = updatedConfig
    /\ IF "transferManager" \in Locals
          /\ updatedConfig.transfer.maxConcurrent # 0
       THEN maxConcurrent' = updatedConfig.transfer.maxConcurrent
       ELSE maxConcurrent' = maxConcurrent
    /\ Commit(State)
    /\ UNCHANGED <<nextId, now, pathVars, fileVars, sshVars>>

(* router.put('/'): the sections of the update replace those of the        *)
(* configuration, and the bound is handed to the transfer manager found    *)
(* on app.locals.                                                          *)
putSettings(updates) ==
    /\ config' = [config EXCEPT !.transfer = updates.transfer]
    /\ IF updates.transfer.maxConcurrent # 0
          /\ "transferManager" \in Locals
       THEN maxConcurrent' = updates.transfer.maxConcurrent
       ELSE maxConcurrent' = maxConcurrent
    /\ Commit(State)
    /\ UNCHANGED <<nextId, now, pathVars, fileVars, sshVars>>

(* ------------------------------ file routes -------------------------- *)
Served(status, command) ==
    [done |-> TRUE, status |-> status, command |-> command]

(* [mediaPaths?.root, mediaPaths?.movies, mediaPaths?.tv].filter(Boolean)  *)
allowedPaths(server) ==
    {v.value : v \in {e \in {server.mediaPaths.root, server.mediaPaths.movies,
                              server.mediaPaths.tv} : Truthy(e)}}

(* allowedPaths.some(allowedPath => path.startsWith(allowedPath))          *)
isAllowed(path, server) ==
    \E allowedPath \in allowedPaths(server) :
        startsWith(path.value, allowedPath)

(* router.get('/:serverId'): the directory listing.  listed says whether   *)
(* the ls command sshManager.listFiles runs succeeds.                      *)
getFiles(serverId, queryPath, listed) ==
    IF ~found(serverId) THEN Served("404", Undefined)
    ELSE LET server == config.servers[serverId]
             path == IF Truthy(queryPath) THEN queryPath
                     ELSE Or3(server.mediaPaths.root,
                              server.mediaPaths.movies, server.mediaPaths.tv)
         IN IF ~isAllowed(path, server) THEN Served("403", Undefined)
            ELSE Served(IF listed THEN "200" ELSE "500", path)

(* router.get('/:serverId/info'): the stat of one file.                    *)
getFileInfo(serverId, queryPath, listed) ==
    IF ~found(serverId) THEN Served("404", Undefined)
    ELSE LET server == config.servers[serverId]
         IN IF ~Truthy(queryPath) THEN Served("400", Undefined)
            ELSE IF ~isAllowed(queryPath, server)
            THEN Served("403", Undefined)
            ELSE Served(IF listed THEN "200" ELSE "500", queryPath)

(* One request of each route on the arguments drawn at the start.          *)
Browse ==
    /\ ~fileResult.done
    /\ fileArgs.route = "browse"
    /\ \E listed \in BOOLEAN :
          fileResult' = getFiles(fileArgs.serverId, fileArgs.path, listed)
    /\ UNCHANGED <<managerVars, config, pathVars, sshVars, fileArgs>>

Info ==
    /\ ~fileResult.done
    /\ fileArgs.route = "info"
    /\ \E listed \in BOOLEAN :
          fileResult' = getFileInfo(fileArgs.serverId, fileArgs.path, listed)
    /\ UNCHANGED <<managerVars, config, pathVars, sshVars, fileArgs>>

(* The paths of requests: up to MaxSegments segments, '..' among them.     *)
Segments == {"a", "m", "e", ".."}
RECURSIVE join(_)
join(segs) ==
    IF segs = <<>> THEN "" ELSE "/" \o Head(segs) \o join(Tail(segs))
RequestPaths ==
    {join(segs) : segs \in UNION {[1..n -> Segments] : n \in 1..MaxSegments}}
FileInputs ==
    [route : {"browse", "info"},
     serverId : {1, 2, UnknownId},
     path : {Undefined, Defined("")} \cup {Defined(p) : p \in RequestPaths}]

InitFiles ==
    /\ InitManager
    /\ maxConcurrent = DefaultMaxConcurrent
    /\ config \in Configs
    /\ pathArgs = NoArgs
    /\ pathResult = NotMapped
    /\ frontResult = NotMapped
    /\ InitSsh
    /\ fileArgs \in FileInputs
    /\ fileResult = NotServed

(* --------------------------- session registry ------------------------ *)
(* `${serverConfig.ssh.host}:${serverConfig.ssh.port}` of the servers.      *)
ConnectionKeys == {"192.168.0.105:22", "192.168.0.106:22"}

ClientIds == 1..Len(clients)
Registered(c) ==
    /\ clients[c].key \in DOMAIN connections
    /\ connections[clients[c].key] = c

(* existingConn.destroyed: true of no client whose close event is still to *)
(* come.                                                                   *)
destroyed(c) == clients[c].state = "closed"

(* connect that looks nothing up in the registry.                          *)
connectAlwaysNew(connectionKey) ==
    /\ Len(clients) < MaxClients
    /\ clients' = Append(clients, [key |-> connectionKey,
                                   state |-> "connecting",
                                   promise |-> "pending"])
    /\ connections' = connections
    /\ sshRet' = [kind |-> "pending", conn |-> Len(clients) + 1]
    /\ UNCHANGED <<managerVars, config, pathVars, fileVars>>

(* connect up to its return: the registered client, or the promise of a    *)
(* new Client on which conn.connect has been called.                       *)
connect(connectionKey) ==
    /\ IF /\ connectionKey \in DOMAIN connections
          /\ ~destroyed(connections[connectionKey])
       THEN /\ sshRet' = [kind |-> "resolved",
                          conn |-> connections[connectionKey]]
            /\ UNCHANGED <<connections, clients>>
       ELSE /\ Len(clients) < MaxClients
            /\ clients' = Append(clients, [key |-> connectionKey,
                                           state |-> "connecting",
                                           promise |-> "pending"])
            /\ connections' = Without(connections, {connectionKey})
            /\ sshRet' = [kind |-> "pending", conn |-> Len(clients) + 1]
    /\ UNCHANGED <<managerVars, config, pathVars, fileVars>>

(* conn.on('ready')                                                        *)
onReady(c) ==
    /\ clients[c].state = "connecting"
    /\ clients' = [clients EXCEPT ![c].state = "ready",
                                  ![c].promise = "resolved"]
    /\ connections' = [k \in DOMAIN connections \cup {clients[c].key} |->
                          IF k = clients[c].key THEN c ELSE connections[k]]
    /\ sshRet' = NoSession
    /\ UNCHANGED <<managerVars, config, pathVars, fileVars>>

(* conn.on('error'): while connecting or on an established connection.     *)
onError(c) ==
    /\ clients[c].state \in {"connecting", "ready"}
    /\ clients' = [clients EXCEPT
                     ![c].state = "errored",
                     ![c].promise = IF @ = "pending" THEN "rejected" ELSE @]
    /\ connections' = Without(connections, {clients[c].key})
    /\ sshRet' = NoSession
    /\ UNCHANGED <<managerVars, config, pathVars, fileVars>>

(* conn.on('close') that leaves the registry as it is.                     *)
onCloseKeepEntry(c) ==
    /\ clients[c].state \in {"connecting", "ready", "errored", "ended"}
    /\ clients' = [clients EXCEPT ![c].state = "closed"]
    /\ connections' = connections
    /\ sshRet' = NoSession
    /\ UNCHANGED <<managerVars, config, pathVars, fileVars>>

(* conn.on('close'): the socket of a connection has closed, whether it was *)
(* still being set up, established, failed or ended; a pending promise of  *)
(* connect stays pending.                                                  *)
onClose(c) ==
    /\ clients[c].state \in {"connecting", "ready", "errored", "ended"}
    /\ clients' = [clients EXCEPT ![c].state = "closed"]
    /\ connections' = Without(connections, {clients[c].key})
    /\ sshRet' = NoSession
    /\ UNCHANGED <<managerVars, config, pathVars, fileVars>>

disconnect(connectionKey) ==
    /\ IF connectionKey \in DOMAIN connections
       THEN /\ clients' = [clients EXCEPT
                             ![connections[connectionKey]].state = "ended"]
            /\ connections' = Without(connections, {connectionKey})
       ELSE UNCHANGED <<connections, clients>>
    /\ sshRet' = NoSession
    /\ UNCHANGED <<managerVars, config, pathVars, fileVars>>

Acquire == \E connectionKey \in ConnectionKeys : connect(connectionKey)
SessionReady == \E c \in ClientIds : onReady(c)
SessionError == \E c \in ClientIds : onError(c)
SessionClose == \E c \in ClientIds : onClose(c)
Disconnect == \E connectionKey \in ConnectionKeys : disconnect(connectionKey)

Submit ==
    \E pair \in Pairs, files \in Batches(FilePaths) :
        postTransfers(pair[1], pair[2], Array(files))
(* One call of buildDestPath on the arguments drawn at the start.          *)
mapPath ==
    /\ ~pathResult.done
    /\ pathResult' =
         [done |-> TRUE,
          path |-> buildDestPath(pathArgs.sourcePath,
                                 pathArgs.sourceMediaPaths,
                                 pathArgs.destMediaPaths)]
    /\ UNCHANGED <<managerVars, config, pathArgs, frontResult, sshVars,
                   fileVars>>

(* servers.find(s => s.id === id) of the frontend: a server with its       *)
(* mediaPaths table, or undefined.                                         *)
NotFound == [found |-> FALSE, mediaPaths |-> <<>>]
Found(mediaPaths) == [found |-> TRUE, mediaPaths |-> mediaPaths]

(* mapPathToDestination whose destination base is the root whenever the   *)
(* destination defines one.                                                *)
mapPathToDestinationRootFirst(sourcePath, sourceServer, destServer) ==
    IF ~sourceServer.found \/ ~destServer.found THEN sourcePath
    ELSE LET src == sourceServer.mediaPaths
             dst == destServer.mediaPaths
             relativePath ==
               IF Truthy(src.movies) /\ startsWith(sourcePath, src.movies.value)
               THEN stripLeadingSlashes(
                      removeFirst(sourcePath, src.movies.value))
               ELSE IF Truthy(src.tv) /\ startsWith(sourcePath, src.tv.value)
               THEN stripLeadingSlashes(removeFirst(sourcePath, src.tv.value))
               ELSE IF Truthy(src.root)
                       /\ startsWith(sourcePath, src.root.value)
               THEN stripLeadingSlashes(
                      removeFirst(sourcePath, src.root.value))
               ELSE lastPart(sourcePath)
         IN collapseSlashes(
              interpolate(Or3(dst.root, dst.movies, dst.tv))
                \o "/" \o relativePath)

(* The frontend's mapPathToDestination, on the servers its lookups found.  *)
mapPathToDestination(sourcePath, sourceServer, destServer) ==
    IF ~sourceServer.found \/ ~destServer.found THEN sourcePath
    ELSE LET src == sourceServer.mediaPaths
             dst == destServer.mediaPaths
             mediaType ==
               IF Truthy(src.movies) /\ startsWith(sourcePath, src.movies.value)
               THEN "movies"
               ELSE IF Truthy(src.tv) /\ startsWith(sourcePath, src.tv.value)
               THEN "tv"
               ELSE "root"
             relativePath ==
               IF Truthy(src.movies) /\ startsWith(sourcePath, src.movies.value)
               THEN stripLeadingSlashes(
                      removeFirst(sourcePath, src.movies.value))
               ELSE IF Truthy(src.tv) /\ startsWith(sourcePath, src.tv.value)
               THEN stripLeadingSlashes(removeFirst(sourcePath, src.tv.value))
               ELSE IF Truthy(src.root)
                       /\ startsWith(sourcePath, src.root.value)
               THEN stripLeadingSlashes(
                      removeFirst(sourcePath, src.root.value))
               ELSE lastPart(sourcePath)
             base ==
               IF mediaType = "movies" /\ Truthy(dst.movies) THEN dst.movies
               ELSE IF mediaType = "tv" /\ Truthy(dst.tv) THEN dst.tv
               ELSE Or3(dst.root, dst.movies, dst.tv)
         IN collapseSlashes(interpolate(base) \o "/" \o relativePath)

(* One call of mapPathToDestination on the arguments drawn at the start,   *)
(* both servers found.                                                     *)
mapFront ==
    /\ ~frontResult.done
    /\ frontResult' =
         [done |-> TRUE,
          path |-> mapPathToDestination(pathArgs.sourcePath,
                                        Found(pathArgs.sourceMediaPaths),
                                        Found(pathArgs.destMediaPaths))]
    /\ UNCHANGED <<managerVars, config, pathArgs, pathResult, sshVars,
                   fileVars>>

InitPath ==
    /\ InitManager
    /\ maxConcurrent = DefaultMaxConcurrent
    /\ config = StartConfig
    /\ pathArgs \in PathInputs
    /\ pathResult = NotMapped
    /\ frontResult = NotMapped
    /\ InitSsh
    /\ fileArgs = NoRequest
    /\ fileResult = NotServed

SubmitWide ==
    \E pair \in Pairs, files \in Batches(WideFilePaths) :
        /\ nextId + Len(files) - 1 <= MaxWideTransfers
        /\ postTransfers(pair[1], pair[2], Array(files))
(* Batches in either direction between the two servers.                   *)
SubmitBothWays ==
    \E pair \in BothWays, files \in Batches(FilePaths) :
        postTransfers(pair[1], pair[2], Array(files))
(* Batches in which a file object may lack its path.                       *)
NoPath == [name |-> "f"]
MixedBatches ==
    UNION {[1..n -> {[path |-> p] : p \in FilePaths} \cup {NoPath}] :
             n \in 1..MaxTransfers}
SubmitMixed ==
    \E pair \in Pairs, files \in MixedBatches :
        postTransfers(pair[1], pair[2], Array(files))
(* Settings updates and configuration files that carry a bound.            *)
SettingsUpdates == {[transfer |-> [maxConcurrent |-> n]] : n \in 1..MaxBound}
SettingsConfigs ==
    {[StartConfig EXCEPT !.transfer.maxConcurrent = n] : n \in 1..MaxBound}
UpdateSettings == \E updates \in SettingsUpdates : putSettings(updates)
ReloadSettings ==
    \E updatedConfig \in SettingsConfigs : reloadConfig(updatedConfig)
(* A request body of any shape: ids absent, unknown or equal, files absent,*)
(* no array, empty, or a batch.                                            *)
BodyIds == {MissingId, UnknownId, 1, 2}
BodyFiles ==
    {Missing, NotArray, Array(<<>>)}
        \cup {Array(files) : files \in Batches(FilePaths)}
Bodies ==
    {<<pair[1], pair[2], files>> : pair \in Pairs, files \in BodyFiles}
        \cup {<<sourceServerId, destServerId, Array(<<[path |-> p]>>)>> :
                 sourceServerId \in BodyIds, destServerId \in BodyIds,
                 p \in FilePaths}
SubmitBody ==
    \E body \in Bodies : postTransfers(body[1], body[2], body[3])
(* The chunks of output: one or two lines, progress lines or others.       *)
Lines == {OtherLine} \cup {ProgressLine(pct) : pct \in WidePercentages}
Chunks == UNION {[1..n -> Lines] : n \in 1..MaxLines}
Chunk == \E id \in Ids, chunk \in Chunks : RsyncChunk(id, chunk)
Reload == \E updatedConfig \in Configs : reloadConfig(updatedConfig)
Ready == \E id \in Ids : ConnectReady(id)
Reject == \E id \in Ids, kind \in ConnectErrors : ConnectError(id, kind)
Lost == \E id \in Ids : ConnectClose(id)
Data == \E id \in Ids, pct \in Percentages : RsyncData(id, pct)
Close == \E id \in Ids, exitCode \in ExitCodes : RsyncClose(id, exitCode)
Cancel == \E id \in Ids : cancelTransfer(id)
SetBound == \E max \in 1..MaxBound : setMaxConcurrent(max)
Sweep == \E maxAge \in Ages : clearOldTransfers(maxAge)
CloseWide ==
    \E id \in Ids, exitCode \in WideExitCodes : RsyncClose(id, exitCode)

(* The callbacks of requests and of ssh2 events.                            *)
Next ==
    \/ Submit
    \/ Ready
    \/ Reject
    \/ Data
    \/ Close
    \/ Cancel
    \/ SetBound

Spec == Init /\ [][Next]_vars

(* The same with the clock advancing and the retention sweep running.      *)
NextTimed ==
    \/ Submit
    \/ Ready
    \/ Reject
    \/ Data
    \/ Close
    \/ Cancel
    \/ SetBound
    \/ Sweep
    \/ Tick

SpecTimed == Init /\ [][NextTimed]_vars

(* The bound is held fixed: setMaxConcurrent is not called after startup.  *)
NextFixed ==
    \/ Submit
    \/ Ready
    \/ Reject
    \/ Data
    \/ Close
    \/ Cancel

SpecFixed == Init /\ [][NextFixed]_vars

(* Submissions and executions only: no cancel, the bound held fixed.       *)
NextScenario ==
    \/ Submit
    \/ Ready
    \/ Reject
    \/ Data
    \/ Close

SpecScenario == Init /\ [][NextScenario]_vars

(* The bound held fixed and the remote copy exiting with any of the wider  *)
(* set of exit codes.                                                      *)
NextExit ==
    \/ Submit
    \/ Ready
    \/ Reject
    \/ Data
    \/ CloseWide
    \/ Cancel

SpecExit == Init /\ [][NextExit]_vars

(* Submissions of differing files while the configuration is reloaded.     *)
NextConfig ==
    \/ SubmitWide
    \/ Ready
    \/ Reject
    \/ Data
    \/ Close
    \/ Cancel
    \/ SetBound
    \/ Reload

SpecConfig == Init /\ [][NextConfig]_vars

(* Request bodies of any shape; no cancel, the bound held fixed.            *)
NextRoute ==
    \/ SubmitBody
    \/ Ready
    \/ Reject
    \/ Close

SpecRoute == Init /\ [][NextRoute]_vars

(* Copies that write chunks of any shape; no cancel, the bound held fixed. *)
NextProgress ==
    \/ Submit
    \/ Ready
    \/ Reject
    \/ Chunk
    \/ Close

SpecProgress == Init /\ [][NextProgress]_vars

(* The session registry alone: connect calls, ssh2 events, disconnect.     *)
NextSsh ==
    \/ Acquire
    \/ SessionReady
    \/ SessionError
    \/ SessionClose
    \/ Disconnect

SpecSsh == Init /\ [][NextSsh]_vars

(* buildDestPath alone, on every input of PathInputs.                      *)
NextPath ==
    \/ mapPath

SpecPath == InitPath /\ [][NextPath]_vars

(* Batches in both directions; no progress output, the bound held fixed.   *)
NextBothWays ==
    \/ SubmitBothWays
    \/ Ready
    \/ Reject
    \/ Close
    \/ Cancel

SpecBothWays == Init /\ [][NextBothWays]_vars

(* Every connection attempt reports ready, error or close, and every       *)
(* remote command that was launched closes.                                *)
NextLive ==
    \/ Submit
    \/ Ready
    \/ Reject
    \/ Lost
    \/ Close
    \/ Cancel

Reports(id) ==
    \/ ConnectReady(id)
    \/ \E kind \in ConnectErrors : ConnectError(id, kind)
    \/ ConnectClose(id)
Exits(id) == \E exitCode \in ExitCodes : RsyncClose(id, exitCode)

SpecLive ==
    /\ Init
    /\ [][NextLive]_vars
    /\ \A id \in Ids : WF_vars(Reports(id)) /\ WF_vars(Exits(id))

(* Batches with file objects of either shape; no progress output, no       *)
(* cancel, the bound held fixed.                                           *)
NextBatch ==
    \/ SubmitMixed
    \/ Ready
    \/ Reject
    \/ Close

SpecBatch == Init /\ [][NextBatch]_vars

(* The settings routes beside submissions and executions.                  *)
NextSettings ==
    \/ Submit
    \/ Ready
    \/ Reject
    \/ Close
    \/ UpdateSettings
    \/ ReloadSettings

SpecSettings == Init /\ [][NextSettings]_vars

(* buildDestPath and the frontend's mapPathToDestination on the same       *)
(* inputs.                                                                 *)
NextFront ==
    \/ mapPath
    \/ mapFront

SpecFront == InitPath /\ [][NextFront]_vars

(* The file routes alone, on every request of FileInputs.                  *)
NextFiles ==
    \/ Browse
    \/ Info

SpecFiles == InitFiles /\ [][NextFiles]_vars

(* ------------------------- derived quantities ------------------------- *)
(* A submission of n files between the servers of pair.                    *)
SubmitOf(pair, n) ==
    \E files \in Batches(FilePaths) :
        Len(files) = n /\ postTransfers(pair[1], pair[2], Array(files))
WithStatus(st) == {id \in DOMAIN transfers : transfers[id].status = st}
ActiveCount == Cardinality(WithStatus("active"))
QueuedCount == Cardinality(WithStatus("queued"))
Executing(id) == exec[id].pc \in {"connecting", "running"}
Published(name, id) ==
    \E i \in 1..Len(emitted) : emitted[i].name = name /\ emitted[i].id = id
Publications(name, id) ==
    Cardinality({i \in 1..Len(emitted) :
                    emitted[i].name = name /\ emitted[i].id = id})

(* ------------------------------- C1 ----------------------------------- *)
(* C1 as stated: in every reachable state the number of records whose      *)
(* status is active is at most maxConcurrent.                              *)
ActiveWithinBound == ActiveCount <= maxConcurrent

(* C1 amended: no step leaves more active records than the bound unless it *)
(* admitted none; the count exceeds maxConcurrent only after               *)
(* setMaxConcurrent lowered the bound below the number already active.     *)
AdmissionWithinBound ==
    [][ActiveCount' > maxConcurrent' =>
         /\ ActiveCount' <= ActiveCount
         /\ (ActiveCount <= maxConcurrent => maxConcurrent' < maxConcurrent)]_vars

BoundLoweredBelowActive == ActiveCount > maxConcurrent

(* ------------------------------- C2 ----------------------------------- *)
Rank(st) == IF st = "queued" THEN 0 ELSE IF st = "active" THEN 1 ELSE 2

(* C2: a record's status only moves forward along queued -> active ->      *)
(* terminal, and a completed, failed or cancelled status never changes.    *)
StatusMonotone ==
    [][\A id \in DOMAIN transfers \cap DOMAIN transfers' :
         /\ Rank(transfers'[id].status) >= Rank(transfers[id].status)
         /\ (transfers[id].status \in Terminal =>
                transfers'[id].status = transfers[id].status)]_vars
(* ------------------------------- C3 ----------------------------------- *)
Distinct(q) == \A i, j \in 1..Len(q) : q[i] = q[j] => i = j

(* C3 as stated: createTransfers returns one distinct id per file and, at  *)
(* the moment it returns, every returned id resolves to a queued record.   *)
SubmitReturnsQueued ==
    [][\A pair \in Pairs, n \in 1..MaxTransfers : SubmitOf(pair, n) =>
         /\ ret'.kind = "ids" /\ Len(ret'.ids) = n /\ Distinct(ret'.ids)
         /\ \A i \in 1..n :
              /\ ret'.ids[i] \in DOMAIN transfers'
              /\ transfers'[ret'.ids[i]].status = "queued"]_vars

(* C3 amended: createTransfers returns one distinct fresh id per file and, *)
(* at the moment it returns, every returned id resolves to a record that   *)
(* is queued or active; the admission pass has already run, so a returned  *)
(* record is still queued only if the active set is full.                  *)
SubmitReturnsQueuedOrActive ==
    [][\A pair \in Pairs, n \in 1..MaxTransfers : SubmitOf(pair, n) =>
         /\ ret'.kind = "ids" /\ Len(ret'.ids) = n /\ Distinct(ret'.ids)
         /\ \A i \in 1..n :
              LET id == ret'.ids[i] IN
              /\ id \in DOMAIN transfers' /\ id \notin DOMAIN transfers
              /\ transfers'[id].id = id
              /\ transfers'[id].status \in {"queued", "active"}
              /\ transfers'[id].status = "active" <=> id \in activeTransfers'
              /\ transfers'[id].status = "queued" =>
                    Cardinality(activeTransfers') >= maxConcurrent']_vars

SubmitReturnedActiveAndQueued ==
    /\ ret.kind = "ids"
    /\ \E i, j \in 1..Len(ret.ids) :
         /\ transfers[ret.ids[i]].status = "active"
         /\ transfers[ret.ids[j]].status = "queued"

(* ------------------------------- C4 ----------------------------------- *)
(* C4: with the bound B fixed and no cancel, a batch of N > B files        *)
(* submitted to an idle manager leaves exactly B records active and N - B  *)
(* queued; each end of an active execution while records are queued turns  *)
(* exactly one of them active; the active count is B while any is queued.  *)
BatchFillsBound ==
    [][/\ \A pair \in Pairs, n \in 1..MaxTransfers :
            (SubmitOf(pair, n) /\ ActiveCount = 0 /\ QueuedCount = 0
               /\ n > maxConcurrent) =>
                 ActiveCount' = maxConcurrent /\ QueuedCount' = n - maxConcurrent
       /\ \A id \in Ids :
            (Executing(id) /\ exec'[id].pc = "done" /\ QueuedCount > 0) =>
               /\ QueuedCount' = QueuedCount - 1
               /\ ActiveCount' = ActiveCount
               /\ Cardinality(WithStatus("queued") \cap WithStatus("active")') = 1
       /\ QueuedCount' > 0 => ActiveCount' = maxConcurrent']_vars

QueueDrainsAtBound ==
    /\ QueuedCount > 0
    /\ ActiveCount = maxConcurrent
    /\ \E id \in Ids, other \in DOMAIN transfers :
         /\ exec[id].pc = "done"
         /\ Published("transfer:complete", id)
         /\ Published("transfer:update", other)
         /\ transfers[other].status = "active"

(* ------------------------------- C5 ----------------------------------- *)
(* C5: whenever the execution of an admitted record ends (copy succeeded,  *)
(* nonzero exit, no session, launch error), in the same step its id has    *)
(* left activeTransfers and an admission pass has run: no queued id is     *)
(* left waiting while a slot is free.                                      *)
SlotReleasedOnEnd ==
    [][\A id \in Ids : (Executing(id) /\ exec'[id].pc = "done") =>
         /\ id \notin activeTransfers'
         /\ ~(Len(queue') > 0 /\ Cardinality(activeTransfers') < maxConcurrent')
         /\ (Len(queue) > 0 /\ Cardinality(activeTransfers \ {id}) < maxConcurrent
               => Head(queue) \in activeTransfers')]_vars

ExecutionEndedAndAdmitted ==
    \E id, other \in Ids :
        /\ exec[id].pc = "done"
        /\ Published("transfer:complete", id) \/ Published("transfer:error", id)
        /\ other # id /\ Published("transfer:update", other)
        /\ exec[other].pc = "connecting"

(* ------------------------------- C6 ----------------------------------- *)
(* C6: with the bound held fixed, between operations the queue never holds *)
(* a queued record while the active count is below the bound.              *)
NoFreeSlotWhileQueued == ~(QueuedCount > 0 /\ ActiveCount < maxConcurrent)

(* ------------------------------- C7 ----------------------------------- *)
InQueue(q, id) == \E i \in 1..Len(q) : q[i] = id
NeverStarted(id) ==
    /\ id < nextId
    /\ exec[id].pc = "none"
    /\ id \notin activeTransfers
    /\ id \in DOMAIN transfers => transfers[id].status = "cancelled"

(* C7: cancelTransfer on a queued record removes its id from the queue,    *)
(* sets status cancelled, publishes one transfer:update and returns true;  *)
(* from then on the record is never active and startTransfer is never      *)
(* invoked for it.                                                         *)
CancelQueued ==
    [][\A id \in Ids :
         /\ (cancelTransfer(id) /\ id \in DOMAIN transfers
               /\ transfers[id].status = "queued") =>
              /\ ret' = RetBool(TRUE)
              /\ transfers'[id].status = "cancelled"
              /\ ~InQueue(queue', id)
              /\ emitted' = emitTransferUpdate(transfers'[id])
              /\ NeverStarted(id)'
         /\ (NeverStarted(id) /\ ~InQueue(queue, id)) =>
              (NeverStarted(id)' /\ ~InQueue(queue', id))]_vars

CancelledWhileQueued ==
    \E id \in DOMAIN transfers :
        /\ ret = RetBool(TRUE)
        /\ emitted = emitTransferUpdate(transfers[id])
        /\ transfers[id].status = "cancelled"
        /\ exec[id].pc = "none"

(* ------------------------------- C8 ----------------------------------- *)
(* C8: cancelTransfer on an active record sets status cancelled, stamps    *)
(* completedAt, removes the id from activeTransfers, publishes one         *)
(* transfer:update and returns true in the same step, while the execution  *)
(* of the record stays where it was.                                       *)
CancelActive ==
    [][\A id \in Ids :
         (cancelTransfer(id) /\ id \in DOMAIN transfers
            /\ transfers[id].status = "active") =>
              /\ ret' = RetBool(TRUE)
              /\ transfers'[id].status = "cancelled"
              /\ transfers'[id].completedAt = now
              /\ id \notin activeTransfers'
              /\ Cardinality(activeTransfers') = Cardinality(activeTransfers) - 1
              /\ emitted' = emitTransferUpdate(transfers'[id])
              /\ exec'[id] = exec[id] /\ Executing(id)]_vars

CancelledWhileActive ==
    \E id \in DOMAIN transfers :
        /\ ret = RetBool(TRUE)
        /\ emitted = emitTransferUpdate(transfers[id])
        /\ transfers[id].status = "cancelled"
        /\ transfers[id].completedAt # Null
        /\ Executing(id)

(* ------------------------------- C9 ----------------------------------- *)
(* C9: cancelTransfer returns true on a queued or active record and false  *)
(* on any other; a call that returns false changes no record, queue or     *)
(* active set and publishes nothing; and after any call a second call on   *)
(* the same id returns false and changes and publishes nothing.            *)
CancelIdempotent ==
    [][\A id \in Ids : (cancelTransfer(id) /\ id \in DOMAIN transfers) =>
         LET again == cancel(State', id, now') IN
         /\ transfers[id].status \in {"queued", "active"} => ret' = RetBool(TRUE)
         /\ transfers[id].status \notin {"queued", "active"} =>
              /\ ret' = RetBool(FALSE)
              /\ UNCHANGED <<transfers, queue, activeTransfers, detached, exec>>
              /\ emitted' = <<>>
         /\ again.ret = RetBool(FALSE)
         /\ again.transfers = transfers'
         /\ again.queue = queue'
         /\ again.activeTransfers = activeTransfers'
         /\ again.emitted = <<>>]_vars

SecondCancelRefused ==
    \E id \in DOMAIN transfers :
        /\ ret = RetBool(FALSE)
        /\ emitted = <<>>
        /\ transfers[id].status = "cancelled"

(* ------------------------------- C10 ---------------------------------- *)
Failure(id) ==
    \/ \E kind \in ConnectErrors : ConnectError(id, kind)
    \/ \E exitCode \in ExitCodes \ {0} : RsyncClose(id, exitCode)

(* C10: a failure of an execution returns or throws nothing to any caller  *)
(* and leaves no unhandled rejection: it shows as a transfer:error event   *)
(* and, on the record, as status failed with the error stored; and every   *)
(* createTransfers call returns all its ids.                               *)
FailureContained ==
    [][/\ \A id \in Ids : Failure(id) =>
            /\ ret' = RetNone
            /\ Published("transfer:error", id)'
            /\ id \in DOMAIN transfers' =>
                  /\ transfers'[id].status = "failed"
                  /\ transfers'[id].error # NoError
       /\ \A pair \in Pairs, n \in 1..MaxTransfers : SubmitOf(pair, n) =>
            ret'.kind = "ids" /\ Len(ret'.ids) = n
       /\ ~unhandled']_vars

FailureRecorded ==
    \E id \in DOMAIN transfers :
        /\ transfers[id].status = "failed"
        /\ transfers[id].error # NoError
        /\ Published("transfer:error", id)
        /\ ~unhandled

(* ------------------------------- C11 ---------------------------------- *)
(* C11: when the remote copy of a record that is active exits with code 0  *)
(* the record becomes completed with percentage 100 and completedAt        *)
(* stamped and exactly one transfer:complete event is published; when it   *)
(* exits with any other code the record becomes failed with an error that  *)
(* carries the exit code and completedAt stamped and exactly one           *)
(* transfer:error event is published; and a record becomes completed only  *)
(* in the step in which its copy exits with code 0.                        *)
CopyExitRecorded ==
    [][/\ \A id \in Ids, exitCode \in WideExitCodes :
            (RsyncClose(id, exitCode) /\ id \in DOMAIN transfers
               /\ transfers[id].status = "active") =>
                 /\ transfers'[id].completedAt = now
                 /\ exitCode = 0 =>
                       /\ transfers'[id].status = "completed"
                       /\ transfers'[id].percentage = 100
                       /\ Publications("transfer:complete", id)' = 1
                       /\ Publications("transfer:error", id)' = 0
                 /\ exitCode # 0 =>
                       /\ transfers'[id].status = "failed"
                       /\ transfers'[id].error =
                             [kind |-> "exit", code |-> exitCode]
                       /\ Publications("transfer:error", id)' = 1
                       /\ Publications("transfer:complete", id)' = 0
       /\ \A id \in DOMAIN transfers' :
            (/\ transfers'[id].status = "completed"
             /\ ~(id \in DOMAIN transfers
                    /\ transfers[id].status = "completed")) =>
                RsyncClose(id, 0)]_vars

CopyExitedBothWays ==
    \E id, other \in DOMAIN transfers :
        /\ transfers[id].status = "completed"
        /\ transfers[id].percentage = 100
        /\ transfers[other].status = "failed"
        /\ transfers[other].error = [kind |-> "exit", code |-> 23]
        /\ transfers[other].completedAt = now
        /\ Publications("transfer:error", other) = 1

(* ------------------------------- C12 ---------------------------------- *)
Identity(r) ==
    <<r.id, r.sourcePath, r.destPath, r.sourceServerId, r.destServerId>>

(* C12: a record's id, sourcePath, destPath, sourceServerId and            *)
(* destServerId are assigned in the createTransfers call that creates it,  *)
(* destPath from the servers' mediaPaths of that moment, and no later step *)
(* (admission, progress, completion, failure, cancel, setMaxConcurrent,    *)
(* configuration reload) changes any of them.                              *)
PathsAssignedOnce ==
    [][/\ \A id \in DOMAIN transfers \cap DOMAIN transfers' :
            Identity(transfers'[id]) = Identity(transfers[id])
       /\ \A id \in DOMAIN transfers' \ DOMAIN transfers :
            LET r == transfers'[id] IN
            /\ ret'.kind = "ids"
            /\ \E i \in 1..Len(ret'.ids) : ret'.ids[i] = id
            /\ r.id = id
            /\ r.sourcePath \in WideFilePaths
            /\ r.destPath =
                 buildDestPath(r.sourcePath,
                               config.servers[r.sourceServerId].mediaPaths,
                               config.servers[r.destServerId].mediaPaths)]_vars

DestPathKeptAcrossReload ==
    \E id \in DOMAIN transfers :
        /\ transfers[id].status = "completed"
        /\ transfers[id].destPath #
             buildDestPath(transfers[id].sourcePath,
                           config.servers[transfers[id].sourceServerId].mediaPaths,
                           config.servers[transfers[id].destServerId].mediaPaths)

(* ------------------------------- C13 ---------------------------------- *)
Mapped(sourcePath, destPath) ==
    (pathResult.done /\ pathArgs.sourcePath = sourcePath
       /\ pathArgs.sourceMediaPaths = ExampleSource
       /\ pathArgs.destMediaPaths = ExampleDest) =>
         pathResult.path = destPath

(* C13: with source {movies:/a/movies, tv:/a/tv, root:/a} and destination  *)
(* {movies:/b/Movies, tv:/b/TV, root:/b}, buildDestPath maps               *)
(* /a/movies/X/f.mkv to /b/Movies/X/f.mkv, /a/tv/Show/S01/e1.mkv to        *)
(* /b/TV/Show/S01/e1.mkv, /a/other/file.mkv to /b/other/file.mkv and       *)
(* /z/file.mkv, under no source base, to /b/file.mkv.                      *)
ExamplesMapped ==
    /\ Mapped("/a/movies/X/f.mkv", "/b/Movies/X/f.mkv")
    /\ Mapped("/a/tv/Show/S01/e1.mkv", "/b/TV/Show/S01/e1.mkv")
    /\ Mapped("/a/other/file.mkv", "/b/other/file.mkv")
    /\ Mapped("/z/file.mkv", "/b/file.mkv")

UnrelatedPathMapped ==
    /\ pathResult.done
    /\ pathArgs.sourcePath = "/z/file.mkv"
    /\ pathArgs.sourceMediaPaths = ExampleSource
    /\ pathArgs.destMediaPaths = ExampleDest
    /\ pathResult.path = "/b/file.mkv"

(* ------------------------------- C14 ---------------------------------- *)
Categories == <<"movies", "tv", "root">>
Has(table, category) == table[category].defined
(* The first element of the sequence of categories that table defines.     *)
FirstDefined(table, order) ==
    LET I == {i \in 1..Len(order) : Has(table, order[i])}
    IN IF I = {} THEN "none"
       ELSE order[CHOOSE i \in I : \A j \in I : i <= j]
(* The first of movies, tv, root whose source base is a prefix of path.    *)
MatchedCategory(path, table) ==
    LET I == {i \in 1..3 : /\ Has(table, Categories[i])
                           /\ startsWith(path, table[Categories[i]].value)}
    IN IF I = {} THEN "none"
       ELSE Categories[CHOOSE i \in I : \A j \in I : i <= j]
Remainder(path, table) ==
    LET m == MatchedCategory(path, table)
    IN IF m = "none" THEN lastPart(path)
       ELSE stripLeadingSlashes(
              substring(path, Len(table[m].value) + 1, Len(path)))

(* C14: for every source path and every pair of tables with any subset of  *)
(* movies, tv, root defined, buildDestPath classifies the path by the      *)
(* first of movies, tv, root whose base is a prefix of it (root when none  *)
(* is), takes as destination base the same category if the destination    *)
(* defines it, otherwise root, otherwise movies, otherwise tv, returns     *)
(* that base joined with the remainder with duplicate separators           *)
(* collapsed, and the result lies under a base the destination defines.    *)
MapsUnderDefinedBase ==
    pathResult.done =>
      LET src == pathArgs.sourceMediaPaths
          dst == pathArgs.destMediaPaths
          m == MatchedCategory(pathArgs.sourcePath, src)
          category == IF m = "none" THEN "root" ELSE m
          chosen == FirstDefined(dst, <<category, "root", "movies", "tv">>)
      IN /\ chosen # "none"
         /\ pathResult.path =
              collapseSlashes(dst[chosen].value \o "/"
                                \o Remainder(pathArgs.sourcePath, src))
         /\ \E i \in 1..3 :
              /\ Has(dst, Categories[i])
              /\ startsWith(pathResult.path,
                            collapseSlashes(dst[Categories[i]].value))

(* ------------------------------- C15 ---------------------------------- *)
(* C15: the registry holds at most one client per connection key, each     *)
(* under its own key and established; and connect for a key that is        *)
(* registered with a live client returns that client and creates no        *)
(* Client.                                                                 *)
RegistryReturnsLiveSession ==
    [][/\ \A key \in DOMAIN connections' :
            /\ connections'[key] \in ClientIds'
            /\ clients'[connections'[key]].key = key
            /\ clients'[connections'[key]].state = "ready"
       /\ \A key \in ConnectionKeys :
            (/\ connect(key)
             /\ key \in DOMAIN connections
             /\ clients[connections[key]].state = "ready") =>
                /\ sshRet' = [kind |-> "resolved", conn |-> connections[key]]
                /\ clients' = clients
                /\ connections' = connections]_vars

RegisteredSessionReturned ==
    \E key \in DOMAIN connections :
        /\ sshRet = [kind |-> "resolved", conn |-> connections[key]]
        /\ clients[connections[key]].state = "ready"
        /\ \A c \in ClientIds : clients[c].key = key => c = connections[key]

(* ------------------------------- C16 ---------------------------------- *)
(* C16: a connect call for a key for which an earlier call's connection is *)
(* still being established creates no further Client: the callers share    *)
(* the one connection.                                                     *)
SessionCreatedOnce ==
    [][\A key \in ConnectionKeys :
         (/\ connect(key)
          /\ \E c \in ClientIds : /\ clients[c].key = key
                                   /\ clients[c].state = "connecting") =>
             Len(clients') = Len(clients)]_vars

(* ------------------------------- C17 ---------------------------------- *)
(* C17: an error or close event of the registered client leaves its key    *)
(* absent from the registry and creates no Client (no retry); a connect    *)
(* for a key that is absent creates a new Client; and connect never        *)
(* returns a client that has emitted error or close.                       *)
DeadSessionDropped ==
    [][/\ \A c \in ClientIds :
            ((onError(c) \/ onClose(c)) /\ Registered(c)) =>
               /\ clients[c].key \notin DOMAIN connections'
               /\ Len(clients') = Len(clients)
       /\ \A key \in ConnectionKeys :
            connect(key) =>
               /\ key \notin DOMAIN connections =>
                     /\ Len(clients') = Len(clients) + 1
                     /\ sshRet' = [kind |-> "pending", conn |-> Len(clients')]
                     /\ clients'[Len(clients')] =
                           [key |-> key, state |-> "connecting",
                            promise |-> "pending"]
               /\ sshRet'.kind = "resolved" =>
                     clients[sshRet'.conn].state = "ready"]_vars

ReconnectedAfterDrop ==
    \E c, d \in ClientIds :
        /\ c < d
        /\ clients[c].key = clients[d].key
        /\ clients[c].promise = "resolved"
        /\ clients[c].state \in {"errored", "closed"}
        /\ clients[d].state = "connecting"
        /\ sshRet = [kind |-> "pending", conn |-> d]
        /\ clients[c].key \notin DOMAIN connections

(* ------------------------------- C18 ---------------------------------- *)
RunningCopies == Cardinality({id \in Ids : exec[id].pc = "running"})

(* C18 as stated: with the bound held fixed, the number of remote copy     *)
(* commands that have been launched and have not yet exited is at most     *)
(* maxConcurrent.                                                          *)
CopiesWithinBound == RunningCopies <= maxConcurrent

RunningWithStatus(st) ==
    {id \in WithStatus(st) : exec[id].pc = "running"}

(* C18 amended: with the bound held fixed, the remote copies running for   *)
(* records that are still active number at most maxConcurrent; every other *)
(* running copy belongs to a record that was cancelled while active, so    *)
(* the number of running copies is at most the bound plus the number of    *)
(* such records.                                                           *)
ActiveCopiesWithinBound ==
    /\ Cardinality(RunningWithStatus("active")) <= maxConcurrent
    /\ RunningCopies <=
         maxConcurrent + Cardinality(RunningWithStatus("cancelled"))

CancelledCopyBeyondBound ==
    /\ RunningCopies > maxConcurrent
    /\ RunningWithStatus("cancelled") # {}
    /\ Cardinality(RunningWithStatus("active")) = maxConcurrent

(* ------------------------------- C19 ---------------------------------- *)
Expired(maxAge) ==
    {id \in DOMAIN transfers :
        /\ transfers[id].status \in
             {"completed", "failed", "cancelled", "skipped"}
        /\ now - transfers[id].completedAt > maxAge}

(* C19: clearOldTransfers(maxAge) removes from the table exactly the       *)
(* records that are completed, failed, cancelled or skipped and whose      *)
(* completedAt lies more than maxAge in the past; queued and active        *)
(* records and younger terminal records stay as they are, and the queue    *)
(* and the active set are unchanged.                                       *)
SweepRemovesExpired ==
    [][\A maxAge \in Ages : clearOldTransfers(maxAge) =>
         /\ DOMAIN transfers' = DOMAIN transfers \ Expired(maxAge)
         /\ \A id \in DOMAIN transfers' : transfers'[id] = transfers[id]
         /\ \A id \in DOMAIN transfers :
              transfers[id].status \in {"queued", "active"} =>
                 id \in DOMAIN transfers'
         /\ queue' = queue
         /\ activeTransfers' = activeTransfers]_vars

SweptOldKeptYoung ==
    \E id \in 1..(nextId - 1), young \in DOMAIN transfers :
        /\ id \notin DOMAIN transfers
        /\ transfers[young].status \in Terminal
        /\ transfers[young].completedAt = now
        /\ ret = RetNone /\ emitted = <<>>

(* ------------------------------- C20 ---------------------------------- *)
(* C20: getStatistics returns for each status the number of records in the *)
(* table with that status; total is the size of the table and the sum of   *)
(* the six counts; skipped is 0.                                           *)
StatisticsAddUp ==
    LET stats == getStatistics IN
    /\ stats.queued = Cardinality(WithStatus("queued"))
    /\ stats.active = Cardinality(WithStatus("active"))
    /\ stats.completed = Cardinality(WithStatus("completed"))
    /\ stats.failed = Cardinality(WithStatus("failed"))
    /\ stats.cancelled = Cardinality(WithStatus("cancelled"))
    /\ stats.skipped = 0
    /\ stats.total = Cardinality(DOMAIN transfers)
    /\ stats.total = stats.queued + stats.active + stats.completed
                       + stats.failed + stats.cancelled + stats.skipped

StatisticsOverThreeStatuses ==
    /\ getStatistics.total = 3
    /\ getStatistics.completed = 1
    /\ getStatistics.failed = 1
    /\ getStatistics.cancelled = 1

(* ------------------------------- C21 ---------------------------------- *)
(* C21: every step that creates a record or changes a record's status      *)
(* publishes a transfer:update event for that record which carries the new *)
(* status.                                                                 *)
StatusChangePublished ==
    [][\A id \in DOMAIN transfers' :
         (id \notin DOMAIN transfers
            \/ transfers'[id].status # transfers[id].status) =>
            \E i \in 1..Len(emitted') :
                /\ emitted'[i].name = "transfer:update"
                /\ emitted'[i].id = id
                /\ emitted'[i].status = transfers'[id].status]_vars

(* ------------------------------- C22 ---------------------------------- *)
(* C22: setMaxConcurrent stores the new bound and changes no record, not   *)
(* the queue and not the active set, also when more records are active     *)
(* than the new bound, and publishes nothing; and every later step that    *)
(* admits a record leaves at most as many ids in the active set as the     *)
(* bound of the moment allows.                                             *)
BoundChangeOnly ==
    [][/\ \A max \in 1..MaxBound : setMaxConcurrent(max) =>
            /\ maxConcurrent' = max
            /\ UNCHANGED <<transfers, queue, activeTransfers, detached, exec>>
            /\ emitted' = <<>>
       /\ (activeTransfers' \ activeTransfers # {}) =>
            /\ Cardinality(activeTransfers') <= maxConcurrent'
            /\ maxConcurrent' = maxConcurrent]_vars

BoundLoweredKeepsActive ==
    /\ emitted = <<>>
    /\ ret = RetNone
    /\ QueuedCount > 0
    /\ Len(queue) = QueuedCount
    /\ Cardinality(activeTransfers) > maxConcurrent
    /\ \A id \in activeTransfers : transfers[id].status = "active"

(* ------------------------------- C23 ---------------------------------- *)
(* A body the submission route has to refuse: a field absent, files no     *)
(* list or an empty list, a server id no configured server has, or the     *)
(* same server as source and destination.                                  *)
Malformed(sourceServerId, destServerId, files) ==
    \/ sourceServerId = MissingId
    \/ destServerId = MissingId
    \/ files = Missing
    \/ files = NotArray
    \/ files = Array(<<>>)
    \/ sourceServerId \notin {1, 2}
    \/ destServerId \notin {1, 2}
    \/ sourceServerId = destServerId

(* C23: a malformed submission is answered in the same step with an error  *)
(* response, and creates no record, enqueues nothing, starts no transfer   *)
(* and publishes no event.                                                 *)
MalformedRejected ==
    [][\A body \in Bodies :
          (/\ Malformed(body[1], body[2], body[3])
           /\ postTransfers(body[1], body[2], body[3])) =>
              /\ ret'.kind \in {"400", "404"}
              /\ UNCHANGED <<transfers, queue, activeTransfers, detached,
                             exec, nextId>>
              /\ emitted' = <<>>]_vars

RejectedWhileBusy ==
    /\ ret.kind \in {"400", "404"}
    /\ emitted = <<>>
    /\ QueuedCount = 0
    /\ ActiveCount > 0
    /\ ActiveCount < maxConcurrent

(* ------------------------------- C24 ---------------------------------- *)
(* The percentages the progress callback was invoked with for id in the    *)
(* step.                                                                   *)
Reported(id) ==
    {i \in 1..Len(emitted') :
        emitted'[i].name = "transfer:progress" /\ emitted'[i].id = id}

(* C24: within one remote copy a chunk invokes the progress callback at    *)
(* most once, and only with the percentage of a progress line of the chunk *)
(* that differs from the percentage of the previous invocation; the        *)
(* percentage last reported changes with an invocation only, so two        *)
(* consecutive invocations never carry the same percentage.                *)
ProgressDeduplicated ==
    [][\A id \in Ids, chunk \in Chunks : RsyncChunk(id, chunk) =>
          /\ Cardinality(Reported(id)) <= 1
          /\ \A i \in Reported(id) :
                /\ \E l \in 1..Len(chunk) :
                      chunk[l] = ProgressLine(emitted'[i].percentage)
                /\ exec[id].lastProgress # emitted'[i].percentage
                /\ exec'[id].lastProgress = emitted'[i].percentage
          /\ Reported(id) = {} =>
                exec'[id].lastProgress = exec[id].lastProgress
          /\ \A other \in Ids \ {id} :
                /\ Reported(other) = {}
                /\ exec'[other].lastProgress = exec[other].lastProgress]_vars

SamePercentageTwice ==
    \E id \in Ids :
        /\ exec[id].pc = "running"
        /\ exec[id].lastProgress = 0
        /\ transfers[id].percentage = 0
        /\ transfers[id].status = "active"
        /\ emitted = <<>>

(* ------------------------------- C25 ---------------------------------- *)
(* The timestamps of record r agree with its status and are in order.      *)
Stamped(r) ==
    /\ r.status = "queued" => r.startedAt = Null /\ r.completedAt = Null
    /\ r.status = "active" => r.startedAt # Null /\ r.completedAt = Null
    /\ r.status \in Terminal => r.completedAt # Null
    /\ r.createdAt # Null
    /\ r.startedAt # Null => r.createdAt <= r.startedAt
    /\ r.completedAt # Null => r.createdAt <= r.completedAt
    /\ (r.startedAt # Null /\ r.completedAt # Null) =>
          r.startedAt <= r.completedAt

(* C25: a queued record has neither startedAt nor completedAt, an active   *)
(* record has startedAt and no completedAt, a completed, failed or         *)
(* cancelled record has completedAt, and the timestamps that are set are   *)
(* ordered createdAt <= startedAt <= completedAt; the clock is taken not   *)
(* to run backwards.                                                       *)
TimestampsAgree ==
    /\ \A id \in DOMAIN transfers : Stamped(transfers[id])
    /\ \A id \in DOMAIN detached : Stamped(detached[id])

StartedLaterThanCreated ==
    \E id \in DOMAIN transfers, other \in DOMAIN transfers :
        /\ transfers[id].status = "completed"
        /\ transfers[id].createdAt < transfers[id].startedAt
        /\ transfers[other].status = "cancelled"
        /\ transfers[other].startedAt = Null

(* ------------------------------- C26 ---------------------------------- *)
(* The segments of an absolute path.                                       *)
RECURSIVE split(_)
split(str) ==
    LET rest == stripLeadingSlashes(str)
        i == indexOf(rest, "/")
    IN IF rest = "" THEN <<>>
       ELSE IF i = 0 THEN <<rest>>
       ELSE <<substring(rest, 1, i - 1)>>
               \o split(substring(rest, i, Len(rest)))

(* The directory the remote host resolves the segments to: '..' leaves the *)
(* directory reached so far, and the root is its own parent.               *)
RECURSIVE resolve(_, _)
resolve(reached, segs) ==
    IF segs = <<>> THEN reached
    ELSE IF Head(segs) = ".."
    THEN resolve(IF reached = <<>> THEN <<>>
                 ELSE SubSeq(reached, 1, Len(reached) - 1), Tail(segs))
    ELSE resolve(Append(reached, Head(segs)), Tail(segs))

(* The path names a file or directory inside one of the server's media     *)
(* directories.                                                            *)
Inside(path, server) ==
    \E allowedPath \in allowedPaths(server) :
        LET dir == split(allowedPath)
            target == resolve(<<>>, split(path))
        IN Len(dir) <= Len(target) /\ SubSeq(target, 1, Len(dir)) = dir

(* C26: a browsing or file-info request whose path leads outside the       *)
(* server's media directories, '..' segments resolved, is answered with    *)
(* 403 and has no remote command executed.                                 *)
OutsideRejected ==
    (/\ fileResult.done
     /\ found(fileArgs.serverId)
     /\ Truthy(fileArgs.path)
     /\ ~Inside(fileArgs.path.value, config.servers[fileArgs.serverId])) =>
        /\ fileResult.status = "403"
        /\ ~fileResult.command.defined

(* ------------------------------- C27 ---------------------------------- *)
(* C27: the copy of every record runs on the session of the record's own   *)
(* source server and targets the record's own destination server.          *)
HostPairKept ==
    \A id \in DOMAIN transfers :
        Executing(id) =>
            /\ exec[id].src = transfers[id].sourceServerId
            /\ exec[id].dst = transfers[id].destServerId

(* ------------------------------- C28 ---------------------------------- *)
(* Record id is admitted in the step: it is active after it and was queued *)
(* or did not exist before it.  Ids are handed out in submission order.    *)
Admitted(id) ==
    /\ transfers'[id].status = "active"
    /\ id \notin DOMAIN transfers \/ transfers[id].status = "queued"

(* The positions in the step's events of the reports of an admission.      *)
AdmissionReports ==
    {i \in 1..Len(emitted') :
        emitted'[i].name = "transfer:update" /\ emitted'[i].status = "active"}

(* C28: records are admitted in the order of their submission: when a      *)
(* record is admitted no record submitted before it is left queued, and    *)
(* the admissions of one pass are in submission order; cancelling a queued *)
(* record takes it from the queue and leaves the others in their order.    *)
AdmittedInSubmissionOrder ==
    [][/\ \A a \in DOMAIN transfers', b \in DOMAIN transfers' :
            (a < b /\ Admitted(b)) => transfers'[a].status # "queued"
       /\ \A i \in AdmissionReports, j \in AdmissionReports :
            i < j => emitted'[i].id < emitted'[j].id
       /\ \A id \in DOMAIN transfers :
            (cancelTransfer(id) /\ transfers[id].status = "queued") =>
                queue' = SelectSeq(queue, LAMBDA other : other # id)]_vars

AdmittedPastCancelled ==
    /\ DOMAIN transfers = 1..3
    /\ transfers[1].status \in {"completed", "failed"}
    /\ transfers[2].status = "cancelled"
    /\ transfers[2].startedAt = Null
    /\ transfers[3].status = "active"
    /\ exec[3].pc = "connecting"

(* ------------------------------- C29 ---------------------------------- *)
(* C29: between operations the queue holds exactly the ids of the queued   *)
(* records, each once, and activeTransfers is exactly the set of ids of    *)
(* the active records; so the id at the head of the queue, the one the     *)
(* next admission pass pops, names a record that exists and is queued.     *)
QueueAndActiveSetExact ==
    /\ {queue[i] : i \in 1..Len(queue)} = WithStatus("queued")
    /\ \A i \in 1..Len(queue), j \in 1..Len(queue) :
          queue[i] = queue[j] => i = j
    /\ activeTransfers = WithStatus("active")
    /\ Len(queue) > 0 =>
          /\ Head(queue) \in DOMAIN transfers
          /\ transfers[Head(queue)].status = "queued"

QueuedBehindActive ==
    /\ Len(queue) = 1
    /\ Cardinality(activeTransfers) = 1
    /\ \E id \in DOMAIN transfers : transfers[id].status \in Terminal

(* ------------------------------- C30 ---------------------------------- *)
(* C30: once a record is cancelled, which transfer:update has reported in  *)
(* the step of the cancel, no step publishes transfer:progress,            *)
(* transfer:complete or transfer:error for it or changes its progress      *)
(* snapshot, its error or its completedAt.                                 *)
CancelledStaysSilent ==
    [][\A id \in DOMAIN transfers :
          transfers[id].status = "cancelled" =>
             /\ \A i \in 1..Len(emitted') :
                   emitted'[i].id = id =>
                      emitted'[i].name \notin
                         {"transfer:progress", "transfer:complete",
                          "transfer:error"}
             /\ id \in DOMAIN transfers' =>
                   /\ transfers'[id].percentage = transfers[id].percentage
                   /\ transfers'[id].error = transfers[id].error
                   /\ transfers'[id].completedAt
                         = transfers[id].completedAt]_vars

(* ------------------------------- C31 ---------------------------------- *)
(* C31: when every connection attempt reports and every launched command   *)
(* closes, every record that was submitted reaches a terminal status and   *)
(* a queue that holds ids becomes empty.                                   *)
EveryRecordEnds ==
    /\ \A id \in Ids :
          (id \in DOMAIN transfers) ~>
             (id \in DOMAIN transfers /\ transfers[id].status \in Terminal)
    /\ (queue # <<>>) ~> (queue = <<>>)

(* ------------------------------- C32 ---------------------------------- *)
(* C32: a submission that fails inside createTransfers leaves no record of *)
(* the batch in the table or the queue and has published no event; no      *)
(* record is left queued while a slot is free.                             *)
BatchAllOrNothing ==
    [][ret'.kind = "500" =>
          /\ transfers' = transfers
          /\ queue' = queue
          /\ emitted' = <<>>
          /\ (queue' # <<>> =>
                Cardinality(activeTransfers') >= maxConcurrent')]_vars

(* ------------------------------- C33 ---------------------------------- *)
(* C33: a close or error event of a client that is not the one registered  *)
(* under its key leaves the registry as it is: the live client registered  *)
(* later under the same key stays registered.                              *)
LaterSessionKept ==
    [][\A c \in ClientIds :
          ((onError(c) \/ onClose(c)) /\ ~Registered(c)) =>
             connections' = connections]_vars

(* ------------------------------- C34 ---------------------------------- *)
(* The base of the matched category ends inside a segment of the path.     *)
EndsInsideSegment(path, base) ==
    /\ Len(path) > Len(base)
    /\ charAt(path, Len(base) + 1) # "/"
    /\ charAt(base, Len(base)) # "/"

(* C34: a source path matches the first of movies, tv, root whose base is  *)
(* a prefix of its text, also when the base ends inside a path segment,    *)
(* and the text after the base, leading separators stripped, is what is    *)
(* carried to the destination.                                             *)
PrefixMatchIsTextual ==
    pathResult.done =>
      LET src == pathArgs.sourceMediaPaths
          path == pathArgs.sourcePath
          m == MatchedCategory(path, src)
      IN m # "none" =>
           /\ classify(path, src) =
                 [mediaType |-> m,
                  relativePath |->
                     stripLeadingSlashes(
                        substring(path, Len(src[m].value) + 1, Len(path)))]
           /\ pathResult.path =
                 collapseSlashes(
                    interpolate(destBasePath(m, pathArgs.destMediaPaths))
                      \o "/"
                      \o stripLeadingSlashes(
                           substring(path, Len(src[m].value) + 1,
                                     Len(path))))

MatchedInsideSegment ==
    /\ pathResult.done
    /\ MatchedCategory(pathArgs.sourcePath, pathArgs.sourceMediaPaths)
          = "movies"
    /\ EndsInsideSegment(pathArgs.sourcePath,
                         pathArgs.sourceMediaPaths.movies.value)
    /\ pathArgs.destMediaPaths.movies = Defined("/b/M")
    /\ pathResult.path =
          "/b/M/" \o substring(pathArgs.sourcePath,
                               Len(pathArgs.sourceMediaPaths.movies.value) + 1,
                               Len(pathArgs.sourcePath))

(* ------------------------------- C35 ---------------------------------- *)
(* C35: a settings update that carries transfer.maxConcurrent = n, and a   *)
(* reload of a configuration with transfer.maxConcurrent = n, make n the   *)
(* bound of the transfer manager.                                          *)
SettingsSetBound ==
    [][/\ \A updates \in SettingsUpdates :
            putSettings(updates) =>
               maxConcurrent' = updates.transfer.maxConcurrent
       /\ \A updatedConfig \in SettingsConfigs :
            reloadConfig(updatedConfig) =>
               maxConcurrent' = updatedConfig.transfer.maxConcurrent]_vars

(* ------------------------------- C36 ---------------------------------- *)
(* C36: for every source path and every pair of mediaPaths tables the      *)
(* frontend's mapPathToDestination returns the path the backend's          *)
(* buildDestPath returns.                                                  *)
SamePathBothSides ==
    (pathResult.done /\ frontResult.done) =>
        frontResult.path = pathResult.path

BothMappedUnderMovies ==
    /\ pathResult.done
    /\ frontResult.done
    /\ MatchedCategory(pathArgs.sourcePath, pathArgs.sourceMediaPaths)
          = "movies"
    /\ pathArgs.destMediaPaths.movies = Defined("/b/M")
    /\ pathArgs.destMediaPaths.root = Defined("/b")
    /\ startsWith(frontResult.path, "/b/M/")
    /\ startsWith(pathResult.path, "/b/M/")
====
